---- MODULE Spec2Model ----
(***************************************************************************)
(* A model of sqltui: the query editor (ui/components/input.rs), the       *)
(* sidebar and content components, the key-event state machine of          *)
(* ui/app.rs with the adapter calls it makes, the loop of run_app with its *)
(* interrupt flag, and the database adapters (db/).                        *)
(*                                                                         *)
(* A Rust String is modelled as the sequence of its chars: an ASCII char   *)
(* is a one-character TLA+ string, a char outside ASCII is named by its    *)
(* code point ("U+00E9").  Byte offsets are computed from the UTF-8        *)
(* width of every char, so the byte-addressed String operations            *)
(* (insert, replace_range) are modelled on byte offsets as in the source.  *)
(* Option<T> is a sequence of length 0 (None) or 1 (Some).                 *)
(***************************************************************************)
EXTENDS Integers, Sequences, FiniteSets, TLC

VARIABLES
    \* ---- Input (ui/components/input.rs:8-22)
    input,                \* Input.input
    cursor_pos,           \* Input.cursor_pos (in chars)
    mode,                 \* Input.mode: "Command" | "SQL"
    history,              \* Input.history
    history_index,        \* Input.history_index
    input_current_db,     \* Input.current_db (prompt)
    show_suggestions,     \* Input.show_suggestions
    suggestion_index,     \* Input.suggestion_index
    external_suggestions, \* Input.external_suggestions
    \* ---- App (ui/app.rs:28-44)
    current_db,           \* App.current_db
    table_columns,        \* App.table_columns: table name -> column names
    config_database,      \* App.config.database
    pool_database,        \* default database of the live pool in App.db_queries
    \* ---- Sidebar (ui/components/sidebar.rs:9-16)
    databases,            \* Sidebar.databases (names)
    tables,               \* Sidebar.tables (names)
    show_databases,       \* Sidebar.show_databases
    sidebar_current_db,   \* Sidebar.current_db
    db_selected,          \* Sidebar.db_list_state.selected()
    table_selected,       \* Sidebar.table_list_state.selected()
    \* ---- Content (ui/components/content.rs:19-30)
    content_type,         \* Content.content_type
    content,              \* Content.content (which message)
    current_table_name,   \* Content.current_table_name
    schema_columns,       \* Content.schema_columns
    table_headers,        \* Content.table_headers
    table_rows,           \* Content.table_rows
    \* ---- StatusBar (ui/components/status_bar.rs:8-14)
    status_current_db,    \* StatusBar.current_db
    \* ---- the event loop (ui/app.rs:140-159)
    calls,                \* the adapter calls and switches of the last key event
    result,               \* what handle_key_event returned for it
    running,              \* the AtomicBool the Ctrl-C handler clears (ui/app.rs:84-89)
    pc,                   \* where run_app is in its loop
    keys_after_interrupt, \* key events handled since the flag was cleared
    \* ---- a database adapter under call (db/queries.rs, db/adapters/*.rs)
    driver,               \* which implementation
    request,              \* the operation called and its argument
    reply                 \* what it returned

vars ==
    <<input, cursor_pos, mode, history, history_index, input_current_db,
      show_suggestions, suggestion_index, external_suggestions,
      current_db, table_columns, config_database, pool_database,
      databases, tables, show_databases, sidebar_current_db, db_selected, table_selected,
      content_type, content, current_table_name, schema_columns, table_headers,
      table_rows, status_current_db, calls, result,
      running, pc, keys_after_interrupt, driver, request, reply>>

(***************************************************************************)
(* Bounds of the model.                                                    *)
(***************************************************************************)
\* longest editor buffer, in chars, the editing keys may leave
MaxLen == 3
\* most entries the history holds before Enter is no longer pressed
MaxHist == 1

None == << >>
Some(x) == << x >>

\* run_app blocked in event::read, no interrupt so far
BlockedInRead == running = TRUE /\ pc = "read" /\ keys_after_interrupt = 0

\* the adapter of the session (App.db_queries), not under call
NoRequest == driver = "DatabaseQueries" /\ request = None /\ reply = None

(***************************************************************************)
(* Characters.                                                             *)
(***************************************************************************)
UpperChars ==
    <<"A","B","C","D","E","F","G","H","I","J","K","L","M",
      "N","O","P","Q","R","S","T","U","V","W","X","Y","Z">>
LowerChars ==
    <<"a","b","c","d","e","f","g","h","i","j","k","l","m",
      "n","o","p","q","r","s","t","u","v","w","x","y","z">>
DigitChars == {"0","1","2","3","4","5","6","7","8","9"}
\* chars outside ASCII that the model uses: two-byte letters and a three-byte letter
NonAsciiLetters == {"U+00C9", "U+00E9", "U+4E2D"}

Range(f) == {f[i] : i \in DOMAIN f}

\* char::is_ascii_alphanumeric
is_ascii_alphanumeric(ch) ==
    ch \in Range(UpperChars) \cup Range(LowerChars) \cup DigitChars

\* char::is_alphanumeric (Unicode)
is_alphanumeric(ch) == is_ascii_alphanumeric(ch) \/ ch \in NonAsciiLetters

\* char::is_whitespace
is_whitespace(ch) == ch = " "

\* char::len_utf8
len_utf8(ch) == IF ch = "U+4E2D" THEN 3 ELSE IF ch \in {"U+00C9", "U+00E9"} THEN 2 ELSE 1

is_word_char(ch) == is_ascii_alphanumeric(ch) \/ ch = "_" \/ ch = "$" \/ ch = "."

\* char lower-casing as str::to_lowercase does it for the chars of the model
to_lowercase_char(ch) ==
    IF \E i \in DOMAIN UpperChars : UpperChars[i] = ch
    THEN LowerChars[CHOOSE i \in DOMAIN UpperChars : UpperChars[i] = ch]
    ELSE IF ch = "U+00C9" THEN "U+00E9" ELSE ch

to_uppercase_char(ch) ==
    IF \E i \in DOMAIN LowerChars : LowerChars[i] = ch
    THEN UpperChars[CHOOSE i \in DOMAIN LowerChars : LowerChars[i] = ch]
    ELSE IF ch = "U+00E9" THEN "U+00C9" ELSE ch

to_lowercase(s) == [i \in 1..Len(s) |-> to_lowercase_char(s[i])]
to_uppercase(s) == [i \in 1..Len(s) |-> to_uppercase_char(s[i])]

(***************************************************************************)
(* Strings as byte-addressed char sequences.                               *)
(***************************************************************************)
RECURSIVE ByteOffset(_, _)
\* byte offset of the k-th char boundary of s (k chars precede it)
ByteOffset(s, k) == IF k = 0 THEN 0 ELSE ByteOffset(s, k - 1) + len_utf8(s[k])

\* String::len
ByteLen(s) == ByteOffset(s, Len(s))

\* the char boundary at byte offset b; String::insert and replace_range
\* panic when b is no char boundary, and here no k exists
CharBoundary(s, b) == CHOOSE k \in 0..Len(s) : ByteOffset(s, k) = b

\* String::insert(byte_idx, ch)
StringInsert(s, b, ch) ==
    LET k == CharBoundary(s, b)
    IN  SubSeq(s, 1, k) \o <<ch>> \o SubSeq(s, k + 1, Len(s))

\* String::replace_range(start..end, with)
StringReplaceRange(s, b1, b2, with) ==
    LET k1 == CharBoundary(s, b1)
        k2 == CharBoundary(s, b2)
    IN  SubSeq(s, 1, k1) \o with \o SubSeq(s, k2 + 1, Len(s))

\* str::starts_with / str::ends_with
starts_with(s, p) == Len(p) <= Len(s) /\ SubSeq(s, 1, Len(p)) = p
ends_with(s, p) == Len(p) <= Len(s) /\ SubSeq(s, Len(s) - Len(p) + 1, Len(s)) = p

RECURSIVE trim_start(_)
trim_start(s) ==
    IF s # << >> /\ is_whitespace(Head(s)) THEN trim_start(Tail(s)) ELSE s

RECURSIVE trim_end(_)
trim_end(s) ==
    IF s # << >> /\ is_whitespace(s[Len(s)])
    THEN trim_end(SubSeq(s, 1, Len(s) - 1)) ELSE s

trim(s) == trim_start(trim_end(s))

RECURSIVE trim_end_matches(_, _)
trim_end_matches(s, ch) ==
    IF s # << >> /\ s[Len(s)] = ch
    THEN trim_end_matches(SubSeq(s, 1, Len(s) - 1), ch) ELSE s

RECURSIVE split_whitespace(_)
\* str::split_whitespace, collected
split_whitespace(s) ==
    LET t == trim_start(s)
        n == IF \E i \in 1..Len(t) : is_whitespace(t[i])
             THEN (CHOOSE i \in 1..Len(t) :
                      /\ is_whitespace(t[i])
                      /\ \A j \in 1..(i - 1) : ~is_whitespace(t[j])) - 1
             ELSE Len(t)
    IN  IF t = << >> THEN << >>
        ELSE <<SubSeq(t, 1, n)>> \o split_whitespace(SubSeq(t, n + 1, Len(t)))

(***************************************************************************)
(* Input: the editor buffer (ui/components/input.rs).  The operations are  *)
(* functions of the buffer s and the cursor c and give the new pair.       *)
(***************************************************************************)
Ed(s, c) == [input |-> s, cursor_pos |-> c]

byte_index_for_char_pos(s, char_pos) ==
    IF char_pos = 0 THEN 0
    ELSE IF char_pos < Len(s) THEN ByteOffset(s, char_pos)
    ELSE ByteLen(s)

\* add_char advancing the cursor by the bytes of ch instead of by one char
add_char_byte_cursor(s, c, ch) ==
    Ed(StringInsert(s, byte_index_for_char_pos(s, c), ch), c + len_utf8(ch))

add_char(s, c, ch) ==
    Ed(StringInsert(s, byte_index_for_char_pos(s, c), ch), c + 1)

delete_char(s, c) ==
    IF c = 0 THEN Ed(s, c)
    ELSE LET prev_char_pos == c - 1
             start == byte_index_for_char_pos(s, prev_char_pos)
             end == byte_index_for_char_pos(s, c)
         IN  Ed(StringReplaceRange(s, start, end, << >>), prev_char_pos)

clear == Ed(<< >>, 0)

move_cursor_start(s, c) == Ed(s, 0)
move_cursor_end(s, c) == Ed(s, Len(s))
move_cursor_left(s, c) == IF c > 0 THEN Ed(s, c - 1) ELSE Ed(s, c)
\* move_cursor_right without the bound test of input.rs:303
move_cursor_right_unbounded(s, c) == Ed(s, c + 1)

move_cursor_right(s, c) == IF c < Len(s) THEN Ed(s, c + 1) ELSE Ed(s, c)

Max(S) == CHOOSE x \in S : \A y \in S : y <= x
Min(S) == CHOOSE x \in S : \A y \in S : x <= y

\* for every char of s, whether the loop condition holds of it
WhitespaceMask(s) == [j \in DOMAIN s |-> is_whitespace(s[j])]
WordMask(s) == [j \in DOMAIN s |-> is_word_char(s[j])]

\* while i > 0 && p(chars[i-1]) { i -= 1 }: the first index, going down
\* from i, at which the loop condition fails
SkipLeft(mask, i) == Max({j \in 0..i : j = 0 \/ ~mask[j]})

\* while i < n && p(chars[i]) { i += 1 }
SkipRight(mask, i) == Min({j \in i..Len(mask) : j = Len(mask) \/ ~mask[j + 1]})

move_word_left(s, c) ==
    IF c = 0 THEN Ed(s, c)
    ELSE Ed(s, SkipLeft(WordMask(s), SkipLeft(WhitespaceMask(s), c)))

\* move_word_right stopping at the end of the word, the whitespace after it
\* not skipped
move_word_right_word_only(s, c) == Ed(s, SkipRight(WordMask(s), c))

\* move_word_right skipping the whitespace first and the word after it
move_word_right_whitespace_first(s, c) ==
    Ed(s, SkipRight(WordMask(s), SkipRight(WhitespaceMask(s), c)))

move_word_right(s, c) ==
    Ed(s, SkipRight(WhitespaceMask(s), SkipRight(WordMask(s), c)))

\* apply_suggestion inserting the blank whatever follows the cursor
apply_suggestion_always_space(s, c, suggestion) ==
    LET start == SkipLeft(WordMask(s), c)
        s1 == StringReplaceRange(s, byte_index_for_char_pos(s, start),
                                 byte_index_for_char_pos(s, c), suggestion)
        c1 == start + Len(suggestion)
    IN  Ed(StringInsert(s1, byte_index_for_char_pos(s1, c1), " "), c1 + 1)

\* the text edit of apply_suggestion (input.rs:211-229); the popup is hidden
\* by the caller's HideSuggestions
apply_suggestion(s, c, suggestion) ==
    LET start == SkipLeft(WordMask(s), c)
        start_byte == byte_index_for_char_pos(s, start)
        end_byte == byte_index_for_char_pos(s, c)
        s1 == StringReplaceRange(s, start_byte, end_byte, suggestion)
        c1 == start + Len(suggestion)
        after_is_ws == c1 < Len(s1) /\ is_whitespace(s1[c1 + 1])
    IN  IF ~after_is_ws
        THEN Ed(StringInsert(s1, byte_index_for_char_pos(s1, c1), " "), c1 + 1)
        ELSE Ed(s1, c1)

\* Input::current_token: (token, start)
current_token(s, c) ==
    LET i == SkipLeft(WhitespaceMask(s), IF c < Len(s) THEN c ELSE Len(s))
        start == SkipLeft(WordMask(s), i)
    IN  <<SubSeq(s, start + 1, i), start>>

RECURSIVE add_chars(_, _, _)
\* for ch in command.chars() { add_char(ch) }
add_chars(s, c, command) ==
    IF command = << >> THEN Ed(s, c)
    ELSE LET e == add_char(s, c, Head(command))
         IN  add_chars(e.input, e.cursor_pos, Tail(command))


(***************************************************************************)
(* Keyword tables (input.rs:164-179).  set_keywords is never called, so    *)
(* injected_keywords stays None and the default list is the one in use.    *)
(***************************************************************************)
DefaultKeywords ==
  <<
    <<"S","E","L","E","C","T">>, <<"F","R","O","M">>, <<"W","H","E","R","E">>,
    <<"I","N","S","E","R","T">>, <<"U","P","D","A","T","E">>, <<"D","E","L","E","T","E">>,
    <<"C","R","E","A","T","E">>, <<"D","R","O","P">>, <<"A","L","T","E","R">>, <<"U","S","E">>,
    <<"S","H","O","W">>, <<"D","E","S","C","R","I","B","E">>, <<"E","X","P","L","A","I","N">>,
    <<"J","O","I","N">>, <<"L","E","F","T">>, <<"R","I","G","H","T">>, <<"I","N","N","E","R">>,
    <<"O","U","T","E","R">>, <<"O","N">>, <<"G","R","O","U","P">>, <<"B","Y">>,
    <<"O","R","D","E","R">>, <<"H","A","V","I","N","G">>, <<"L","I","M","I","T">>,
    <<"O","F","F","S","E","T">>, <<"D","I","S","T","I","N","C","T">>, <<"C","O","U","N","T">>,
    <<"S","U","M">>, <<"A","V","G">>, <<"M","I","N">>, <<"M","A","X">>, <<"A","N","D">>,
    <<"O","R">>, <<"N","O","T">>, <<"I","N">>, <<"L","I","K","E">>,
    <<"B","E","T","W","E","E","N">>, <<"I","S">>, <<"N","U","L","L">>, <<"T","R","U","E">>,
    <<"F","A","L","S","E">>, <<"A","S","C">>, <<"D","E","S","C">>, <<"A","S">>,
    <<"U","N","I","O","N">>, <<"A","L","L">>, <<"E","X","I","S","T","S">>,
    <<"D","A","T","A","B","A","S","E","S">>, <<"T","A","B","L","E","S">>,
    <<"C","O","L","U","M","N","S">>, <<"I","N","D","E","X">>, <<"I","N","D","E","X","E","S">>,
    <<"P","R","O","C","E","S","S","L","I","S","T">>, <<"S","T","A","T","U","S">>,
    <<"V","A","R","I","A","B","L","E","S">>, <<"G","R","A","N","T","S">>,
    <<"P","R","I","V","I","L","E","G","E","S">>, <<"U","S","E","R","S">>,
    <<"F","U","N","C","T","I","O","N","S">>, <<"P","R","O","C","E","D","U","R","E","S">>,
    <<"T","R","I","G","G","E","R","S">>
  >>

HotKeywords ==
  << <<"S","E","L","E","C","T">>, <<"S","H","O","W">>, <<"U","S","E">>,
     <<"D","E","S","C","R","I","B","E">>, <<"E","X","P","L","A","I","N">>,
     <<"I","N","S","E","R","T">>, <<"U","P","D","A","T","E">>, <<"D","E","L","E","T","E">> >>

\* keywords.truncate(10)
KeywordLimit == 10

\* Vec::truncate
truncate(list, n) == IF Len(list) > n THEN SubSeq(list, 1, n) ELSE list

(***************************************************************************)
(* String order, for the BTreeSet of app.rs:586-590: chars in code point   *)
(* order, strings compared char by char.                                   *)
(***************************************************************************)
CodePointOrder ==
    <<" ", "$", "*", ".">> \o <<"0","1","2","3","4","5","6","7","8","9">> \o <<";">>
    \o UpperChars \o <<"\\", "_">> \o LowerChars \o <<"U+00C9", "U+00E9", "U+4E2D">>

CodePoint(ch) == CHOOSE i \in DOMAIN CodePointOrder : CodePointOrder[i] = ch

RECURSIVE StrLess(_, _)
StrLess(a, b) ==
    IF b = << >> THEN FALSE
    ELSE IF a = << >> THEN TRUE
    ELSE IF Head(a) = Head(b) THEN StrLess(Tail(a), Tail(b))
    ELSE CodePoint(Head(a)) < CodePoint(Head(b))

RECURSIVE SortedSeq(_)
\* the elements of a set of strings in ascending order (BTreeSet::into_iter)
SortedSeq(S) ==
    IF S = {} THEN << >>
    ELSE LET m == CHOOSE x \in S : \A y \in S \ {x} : StrLess(x, y)
         IN  <<m>> \o SortedSeq(S \ {m})

(***************************************************************************)
(* The program state as one record, so that a handler is a function from   *)
(* the state before to the state after, composed in the source's order.    *)
(***************************************************************************)
State ==
    [input |-> input, cursor_pos |-> cursor_pos, mode |-> mode, history |-> history,
     history_index |-> history_index, input_current_db |-> input_current_db,
     show_suggestions |-> show_suggestions, suggestion_index |-> suggestion_index,
     external_suggestions |-> external_suggestions,
     current_db |-> current_db, table_columns |-> table_columns,
     config_database |-> config_database, pool_database |-> pool_database,
     databases |-> databases, tables |-> tables, show_databases |-> show_databases,
     sidebar_current_db |-> sidebar_current_db, db_selected |-> db_selected,
     table_selected |-> table_selected,
     content_type |-> content_type, content |-> content,
     current_table_name |-> current_table_name, schema_columns |-> schema_columns,
     table_headers |-> table_headers, table_rows |-> table_rows,
     status_current_db |-> status_current_db,
     calls |-> calls, result |-> result]

Assign(st) ==
    /\ input' = st.input
    /\ cursor_pos' = st.cursor_pos
    /\ mode' = st.mode
    /\ history' = st.history
    /\ history_index' = st.history_index
    /\ input_current_db' = st.input_current_db
    /\ show_suggestions' = st.show_suggestions
    /\ suggestion_index' = st.suggestion_index
    /\ external_suggestions' = st.external_suggestions
    /\ current_db' = st.current_db
    /\ table_columns' = st.table_columns
    /\ config_database' = st.config_database
    /\ pool_database' = st.pool_database
    /\ databases' = st.databases
    /\ tables' = st.tables
    /\ show_databases' = st.show_databases
    /\ sidebar_current_db' = st.sidebar_current_db
    /\ db_selected' = st.db_selected
    /\ table_selected' = st.table_selected
    /\ content_type' = st.content_type
    /\ content' = st.content
    /\ current_table_name' = st.current_table_name
    /\ schema_columns' = st.schema_columns
    /\ table_headers' = st.table_headers
    /\ table_rows' = st.table_rows
    /\ status_current_db' = st.status_current_db
    /\ calls' = st.calls
    /\ result' = st.result

\* a key event handled while run_app is between two reads: the loop and the
\* adapter's interface are where they were
Commit(st) ==
    /\ Assign(st)
    /\ UNCHANGED <<running, pc, keys_after_interrupt, driver, request, reply>>

WithEd(st, e) == [st EXCEPT !.input = e.input, !.cursor_pos = e.cursor_pos]

(***************************************************************************)
(* Input: suggestions and history (ui/components/input.rs).                *)
(***************************************************************************)
hide_suggestions(st) == [st EXCEPT !.show_suggestions = FALSE, !.suggestion_index = 0]

\* Input::show_suggestions
show_suggestions_popup(st) == [st EXCEPT !.show_suggestions = TRUE, !.suggestion_index = 0]

compute_suggestions(st) ==
    IF st.external_suggestions # None THEN st.external_suggestions[1]
    ELSE LET token == current_token(st.input, st.cursor_pos)[1]
             token_lower == to_lowercase(token)
         IN  IF token_lower = << >> THEN HotKeywords
             ELSE truncate(SelectSeq(DefaultKeywords,
                               LAMBDA kw : starts_with(to_lowercase(kw), token_lower)),
                           KeywordLimit)

get_current_suggestion(st) ==
    IF ~st.show_suggestions THEN None
    ELSE LET suggestions == compute_suggestions(st)
         IN  IF st.suggestion_index < Len(suggestions)
             THEN Some(suggestions[st.suggestion_index + 1]) ELSE None

\* next_suggestion stopping at the last candidate
next_suggestion_no_wrap(st) ==
    LET suggestions == compute_suggestions(st)
    IN  IF st.show_suggestions /\ suggestions # << >>
        THEN [st EXCEPT !.suggestion_index =
                 Min({st.suggestion_index + 1, Len(suggestions) - 1})]
        ELSE st

next_suggestion(st) ==
    LET suggestions == compute_suggestions(st)
    IN  IF st.show_suggestions /\ suggestions # << >>
        THEN [st EXCEPT !.suggestion_index = (st.suggestion_index + 1) % Len(suggestions)]
        ELSE st

prev_suggestion(st) ==
    LET suggestions == compute_suggestions(st)
    IN  IF st.show_suggestions /\ suggestions # << >>
        THEN [st EXCEPT !.suggestion_index =
                 IF st.suggestion_index = 0 THEN Len(suggestions) - 1
                 ELSE st.suggestion_index - 1]
        ELSE st

\* set_external_suggestions opening the popup on an empty list too
set_external_suggestions_show_empty(st, items) ==
    show_suggestions_popup([st EXCEPT !.external_suggestions = Some(items)])

set_external_suggestions(st, items) ==
    IF items = << >>
    THEN hide_suggestions([st EXCEPT !.external_suggestions = None])
    ELSE show_suggestions_popup([st EXCEPT !.external_suggestions = Some(items)])

clear_external_suggestions(st) == [st EXCEPT !.external_suggestions = None]

\* Input::apply_suggestion, the text edit and the hiding of the popup
apply_suggestion_and_hide(st, suggestion) ==
    hide_suggestions(WithEd(st, apply_suggestion(st.input, st.cursor_pos, suggestion)))

\* add_to_history refusing a command that is anywhere in the history
add_to_history_dedup_all(st, command) ==
    IF trim(command) # << >>
       /\ \A i \in DOMAIN st.history : st.history[i] # command
    THEN [st EXCEPT !.history = Append(st.history, command),
                    !.history_index = Len(st.history) + 1]
    ELSE st

add_to_history(st, command) ==
    IF trim(command) # << >>
       /\ (st.history = << >> \/ st.history[Len(st.history)] # command)
    THEN [st EXCEPT !.history = Append(st.history, command),
                    !.history_index = Len(st.history) + 1]
    ELSE st

\* get_history_up returning the entry at the index before the decrement
get_history_up_off_by_one(st) ==
    IF st.history_index > 0
    THEN LET i == st.history_index
         IN  [st |-> [st EXCEPT !.history_index = i - 1],
              ret |-> IF i < Len(st.history) THEN Some(st.history[i + 1]) ELSE None]
    ELSE [st |-> st, ret |-> None]

\* Input::get_history_up: the state and the entry returned
get_history_up(st) ==
    IF st.history_index > 0
    THEN LET i == st.history_index - 1
         IN  [st |-> [st EXCEPT !.history_index = i],
              ret |-> IF i < Len(st.history) THEN Some(st.history[i + 1]) ELSE None]
    ELSE [st |-> st, ret |-> None]

get_history_down(st) ==
    IF st.history_index < Len(st.history)
    THEN LET i == st.history_index + 1
         IN  [st |-> [st EXCEPT !.history_index = i],
              ret |-> IF i < Len(st.history) THEN Some(st.history[i + 1]) ELSE None]
    ELSE [st |-> st, ret |-> None]

reset_history_index(st) == [st EXCEPT !.history_index = Len(st.history)]

(***************************************************************************)
(* App::update_context_suggestions (ui/app.rs:517-609).                    *)
(***************************************************************************)
\* Sidebar: the cached database names and table names, as the completion
\* reads them
get_databases_ref(st) == st.databases
get_tables_ref(st) == st.tables

\* the token chars of app.rs:527 (Unicode alphanumeric, not ASCII)
is_context_token_char(ch) == is_alphanumeric(ch) \/ ch = "_" \/ ch = "$" \/ ch = "."

\* the filter of app.rs:543, 556 and 595
PrefixFilter(names, token) ==
    SelectSeq(names, LAMBDA name :
        token = << >> \/ starts_with(to_lowercase(name), to_lowercase(token)))

\* no trigger word recognised before the token
EndsWithNone(s, triggers) == FALSE

EndsWithAny(s, triggers) == \E t \in triggers : ends_with(s, t)

update_context_suggestions(st) ==
    IF st.mode # "SQL" THEN st
    ELSE
    LET chars == st.input
        i == SkipLeft(WhitespaceMask(chars), st.cursor_pos)
        start == SkipLeft([j \in DOMAIN chars |-> is_context_token_char(chars[j])], i)
        token == SubSeq(chars, start + 1, i)
        before_lower == to_lowercase(SubSeq(chars, 1, start))
        is_where_context ==
            EndsWithAny(before_lower, {<<"w","h","e","r","e"," ">>, <<"a","n","d"," ">>,
                                       <<"o","r"," ">>})
        dot_context == token # << >> /\ token[Len(token)] = "."
        tbl == trim_end_matches(token, ".")
        all_columns ==
            SortedSeq(UNION {Range(st.table_columns[t]) : t \in DOMAIN st.table_columns})
        fallback ==
            LET s1 == clear_external_suggestions(st)
            IN  IF token = << >> THEN show_suggestions_popup(s1) ELSE hide_suggestions(s1)
    IN  IF ends_with(before_lower, <<"u","s","e"," ">>)
        THEN set_external_suggestions(st, PrefixFilter(get_databases_ref(st), token))
        ELSE IF EndsWithAny(before_lower,
                    {<<"f","r","o","m"," ">>, <<"j","o","i","n"," ">>,
                     <<"d","e","s","c"," ">>, <<"d","e","s","c","r","i","b","e"," ">>})
        THEN set_external_suggestions(st, PrefixFilter(get_tables_ref(st), token))
        ELSE IF is_where_context \/ dot_context
        THEN IF dot_context /\ tbl # << >>
             THEN set_external_suggestions(st,
                      IF tbl \in DOMAIN st.table_columns THEN st.table_columns[tbl]
                      ELSE << >>)
             ELSE IF all_columns # << >>
             THEN set_external_suggestions(st, PrefixFilter(all_columns, token))
             ELSE fallback
        ELSE fallback


(***************************************************************************)
(* handle_key_event, SQL mode (ui/app.rs:221-358): one operator per key.   *)
(* Every branch falls through to `return Ok(false)` except Enter.          *)
(***************************************************************************)
Running == result \in {"none", "Ok(false)"}

\* the state as a key event arrives: nothing called yet
Begin == [State EXCEPT !.calls = << >>]

ReturnOk(st, exit) == [st EXCEPT !.result = IF exit THEN "Ok(true)" ELSE "Ok(false)"]

\* Esc leaving SQL mode at once, the popup closed on the way
sql_esc_one_stage(st) == [hide_suggestions(st) EXCEPT !.mode = "Command"]

\* Esc of SQL mode going back to the database list as it leaves the mode
sql_esc_back(st) ==
    IF st.show_suggestions THEN hide_suggestions(st)
    ELSE [st EXCEPT !.mode = "Command", !.show_databases = TRUE,
                    !.current_db = None, !.status_current_db = None]

sql_esc(st) ==
    IF st.show_suggestions THEN hide_suggestions(st) ELSE [st EXCEPT !.mode = "Command"]

sql_home(st) == hide_suggestions(WithEd(st, move_cursor_start(st.input, st.cursor_pos)))

sql_end(st) == hide_suggestions(WithEd(st, move_cursor_end(st.input, st.cursor_pos)))

\* replace the buffer by a recalled entry: clear, then add_char per char
recall(st, command) == WithEd(st, add_chars(clear.input, clear.cursor_pos, command))

sql_up(st) ==
    IF st.show_suggestions THEN prev_suggestion(st)
    ELSE LET h == get_history_up(st)
         IN  IF h.ret # None THEN recall(h.st, h.ret[1]) ELSE h.st

sql_down(st) ==
    IF st.show_suggestions THEN next_suggestion(st)
    ELSE LET h == get_history_down(st)
         IN  IF h.ret # None THEN recall(h.st, h.ret[1]) ELSE WithEd(h.st, clear)

sql_tab(st) ==
    IF st.show_suggestions
    THEN LET s == get_current_suggestion(st)
         IN  IF s # None THEN apply_suggestion_and_hide(st, s[1]) ELSE st
    ELSE update_context_suggestions(st)

sql_right(st, alt) ==
    IF alt THEN hide_suggestions(WithEd(st, move_word_right(st.input, st.cursor_pos)))
    ELSE IF st.show_suggestions THEN next_suggestion(st)
    ELSE hide_suggestions(WithEd(st, move_cursor_right(st.input, st.cursor_pos)))

sql_left(st, alt) ==
    IF alt THEN hide_suggestions(WithEd(st, move_word_left(st.input, st.cursor_pos)))
    ELSE IF st.show_suggestions THEN prev_suggestion(st)
    ELSE hide_suggestions(WithEd(st, move_cursor_left(st.input, st.cursor_pos)))

\* KeyCode::Char(ch) with modifiers m: "none", "ctrl" (CONTROL or SUPER), "alt"
sql_char(st, ch, m) ==
    LET s == st.input
        c == st.cursor_pos
        e == IF m = "ctrl" /\ ch \in {"a", "A"} THEN move_cursor_start(s, c)
             ELSE IF m = "ctrl" /\ ch \in {"e", "E"} THEN move_cursor_end(s, c)
             ELSE IF m = "ctrl" /\ ch \in {"b", "B"} THEN move_cursor_left(s, c)
             ELSE IF m = "ctrl" /\ ch \in {"f", "F"} THEN move_cursor_right(s, c)
             ELSE IF m = "alt" /\ ch \in {"b", "B"} THEN move_word_left(s, c)
             ELSE IF m = "alt" /\ ch \in {"f", "F"} THEN move_word_right(s, c)
             ELSE add_char(s, c, ch)
    IN  update_context_suggestions(WithEd(st, e))

sql_backspace(st) ==
    update_context_suggestions(WithEd(st, delete_char(st.input, st.cursor_pos)))

(***************************************************************************)
(* The database behind the session.  Every call either fails or returns a  *)
(* value; which, is the environment's choice, made anew for every key       *)
(* event and handed to the handlers as env.                                 *)
(***************************************************************************)
Ok(v) == [ok |-> TRUE, v |-> v]
\* a failure; empty stands where the value would be
Failed(empty) == [ok |-> FALSE, v |-> empty]
Err == Failed(<< >>)
NoRows == [headers |-> << >>, rows |-> << >>]

\* one entry of calls: the operation, its argument, whether it succeeded
Call(op, arg, ok) == [op |-> op, arg |-> arg, ok |-> ok]
Log(st, op, arg, ok) == [st EXCEPT !.calls = Append(@, Call(op, arg, ok))]

\* Content::set_content_type followed by Content::set_content
set_content(st, type, message) == [st EXCEPT !.content_type = type, !.content = message]

set_table_schema(st, columns) ==
    [st EXCEPT !.schema_columns = columns, !.content_type = "TableSchema"]

set_table_data(st, headers, rows) ==
    [st EXCEPT !.table_headers = headers, !.table_rows = rows,
               !.content_type = "TableData"]

\* the vertical rendering of a result: the result kept, one field per line
set_table_data_vertical(st, headers, rows) ==
    [st EXCEPT !.table_headers = headers, !.table_rows = rows,
               !.content_type = "TableData", !.content = "vertical"]

(***************************************************************************)
(* Sidebar (ui/components/sidebar.rs).  A selection is an index from 0.    *)
(***************************************************************************)
\* set_tables filling an empty list only
set_tables_if_empty(st, list) ==
    [st EXCEPT !.tables = IF @ = << >> THEN list ELSE @, !.table_selected = Some(0)]

set_tables(st, list) == [st EXCEPT !.tables = list, !.table_selected = Some(0)]

\* usize::saturating_sub(1)
saturating_sub_1(n) == IF n = 0 THEN 0 ELSE n - 1

NextIndex(selected, len) ==
    IF selected = None THEN 0
    ELSE IF selected[1] >= saturating_sub_1(len) THEN 0 ELSE selected[1] + 1

PreviousIndex(selected, len) ==
    IF selected = None THEN 0
    ELSE IF selected[1] = 0 THEN saturating_sub_1(len) ELSE selected[1] - 1

next_item(st) ==
    IF st.show_databases
    THEN [st EXCEPT !.db_selected = Some(NextIndex(st.db_selected, Len(st.databases)))]
    ELSE [st EXCEPT !.table_selected = Some(NextIndex(st.table_selected, Len(st.tables)))]

previous_item(st) ==
    IF st.show_databases
    THEN [st EXCEPT !.db_selected = Some(PreviousIndex(st.db_selected, Len(st.databases)))]
    ELSE [st EXCEPT !.table_selected =
             Some(PreviousIndex(st.table_selected, Len(st.tables)))]

\* selected().and_then(|i| list.get(i))
Get(list, selected) ==
    IF selected # None /\ selected[1] < Len(list) THEN Some(list[selected[1] + 1])
    ELSE None

get_selected_database(st) ==
    IF st.show_databases THEN Get(st.databases, st.db_selected) ELSE None

get_selected_table(st) ==
    IF ~st.show_databases THEN Get(st.tables, st.table_selected) ELSE None

(***************************************************************************)
(* App: the connection and the loaders (ui/app.rs:72-80, 780-836).  A      *)
(* loader gives the state after it and whether it returned Ok.             *)
(***************************************************************************)
rebuild_pool_for_database(st, env, database_name) ==
    LET s1 == [st EXCEPT !.config_database = database_name]
        s2 == Log(s1, "connect", database_name[1], env.connect)
    IN  IF env.connect
        THEN [st |-> [s2 EXCEPT !.pool_database = database_name], ok |-> TRUE]
        ELSE [st |-> s2, ok |-> FALSE]

load_tables(st, env) ==
    IF st.current_db = None THEN [st |-> st, ok |-> TRUE]
    ELSE LET db_name == st.current_db[1]
             s1 == Log(st, "get_tables", db_name, env.tables.ok)
         IN  IF env.tables.ok
             THEN [st |-> set_content(set_tables(s1, env.tables.v), "Tables", "tables_of"),
                   ok |-> TRUE]
             ELSE [st |-> set_content(s1, "Error", "load_tables_failed"), ok |-> TRUE]

\* DatabaseQueries::get_table_schema (db/queries.rs:167-177): the detailed
\* query first, the simple one when it fails
get_table_schema(st, env, table_name) ==
    LET s1 == Log(st, "try_get_table_schema_detailed", table_name, env.detailed.ok)
    IN  IF env.detailed.ok THEN [st |-> s1, ret |-> env.detailed]
        ELSE [st |-> Log(s1, "get_table_schema_simple", table_name, env.simple.ok),
              ret |-> env.simple]

\* the column names in ascending order instead of in the order fetched
ColumnNamesSorted(columns) == SortedSeq({columns[i].name : i \in DOMAIN columns})

\* columns.iter().map(|c| c.name.clone()).collect()
ColumnNames(columns) == [i \in DOMAIN columns |-> columns[i].name]

\* HashMap::insert
Insert(map, key, value) ==
    [k \in DOMAIN map \cup {key} |-> IF k = key THEN value ELSE map[k]]

\* load_table_schema caching the fetched column names under every table of
\* the sidebar, not only under the table fetched
load_table_schema_prefetch(st, env, table_name) ==
    IF st.current_db = None THEN [st |-> st, ok |-> TRUE]
    ELSE LET r == get_table_schema(st, env, table_name)
         IN  IF r.ret.ok
             THEN LET columns == r.ret.v
                      s1 == [r.st EXCEPT
                                !.table_columns =
                                    [k \in DOMAIN @ \cup Range(st.tables) |->
                                        IF k \in DOMAIN @ /\ k # table_name THEN @[k]
                                        ELSE ColumnNames(columns)],
                                !.current_table_name = Some(table_name)]
                  IN  [st |-> set_table_schema(s1, columns), ok |-> TRUE]
             ELSE [st |-> set_content(r.st, "Error", "load_schema_failed"), ok |-> TRUE]

load_table_schema(st, env, table_name) ==
    IF st.current_db = None THEN [st |-> st, ok |-> TRUE]
    ELSE LET r == get_table_schema(st, env, table_name)
         IN  IF r.ret.ok
             THEN LET columns == r.ret.v
                      s1 == [r.st EXCEPT
                                !.table_columns =
                                    Insert(@, table_name, ColumnNames(columns)),
                                !.current_table_name = Some(table_name)]
                  IN  [st |-> set_table_schema(s1, columns), ok |-> TRUE]
             ELSE [st |-> set_content(r.st, "Error", "load_schema_failed"), ok |-> TRUE]

\* the query text of app.rs:819, limit in decimal; "U+0060" is the backtick
SelectQuery(table_name, limit) ==
    <<"S","E","L","E","C","T"," ","*"," ","F","R","O","M"," ","U+0060">>
    \o table_name \o <<"U+0060"," ","L","I","M","I","T"," ">> \o limit

load_table_data(st, env, table_name, limit) ==
    IF st.current_db = None THEN [st |-> st, ok |-> TRUE]
    ELSE LET query == SelectQuery(table_name, limit)
             s1 == Log(st, "execute_query_raw", query, env.query.ok)
         IN  IF env.query.ok
             THEN IF env.query.v.rows = << >>
                  THEN [st |-> set_content(s1, "TableData", "table_empty"), ok |-> TRUE]
                  ELSE [st |-> set_table_data(s1, env.query.v.headers, env.query.v.rows),
                        ok |-> TRUE]
             ELSE [st |-> set_content(s1, "Error", "load_data_failed"), ok |-> TRUE]

(***************************************************************************)
(* App: the handlers of Command mode (ui/app.rs:161-164, 454-515,          *)
(* 611-667).  Scroll offsets are not part of the model.                    *)
(***************************************************************************)
is_at_root(st) == st.show_databases /\ st.content_type = "Welcome"

\* the return to the database list shared by handle_escape and
\* handle_switch_database
BackToDatabases(st) ==
    set_content([st EXCEPT !.show_databases = TRUE, !.current_db = None,
                           !.status_current_db = None],
                "Welcome", "welcome")

\* handle_escape going from a table's schema or data straight to the
\* database list
handle_escape_reset(st) ==
    IF st.content_type \in {"TableSchema", "TableData", "Tables"} THEN BackToDatabases(st)
    ELSE st

handle_escape(st) ==
    IF st.content_type \in {"TableSchema", "TableData"}
    THEN set_content(st, "Tables", "tables_hint")
    ELSE IF st.content_type = "Tables" THEN BackToDatabases(st)
    ELSE st

handle_enter(st, env) ==
    IF st.show_databases
    THEN LET db == get_selected_database(st)
         IN  IF db = None THEN st
             ELSE LET db_name == db[1]
                      s1 == Log([st EXCEPT !.current_db = Some(db_name),
                                           !.status_current_db = Some(db_name),
                                           !.show_databases = FALSE,
                                           !.sidebar_current_db = Some(db_name)],
                                "set_current_db", db_name, TRUE)
                      s2 == set_content(s1, "Database", "switching")
                      r == rebuild_pool_for_database(s2, env, Some(db_name))
                  IN  IF ~r.ok THEN set_content(r.st, "Error", "switch_failed")
                      ELSE LET l == load_tables([r.st EXCEPT !.content = "loading_tables"],
                                                env)
                           IN  IF ~l.ok
                               THEN set_content(l.st, "Error", "load_tables_failed")
                               ELSE l.st
    ELSE LET table == get_selected_table(st)
         IN  IF table = None THEN st
             ELSE LET l == load_table_schema(
                               set_content(st, "TableSchema", "loading_schema"),
                               env, table[1])
                  IN  IF ~l.ok THEN set_content(l.st, "Error", "load_schema_failed")
                      ELSE l.st

\* the limit of app.rs:618, in decimal
DataLimit == <<"1", "0">>

handle_space(st, env) ==
    IF st.show_databases THEN st
    ELSE LET table == get_selected_table(st)
         IN  IF table = None THEN st
             ELSE LET l == load_table_data(
                               set_content(st, "TableData", "loading_data"),
                               env, table[1], DataLimit)
                  IN  IF ~l.ok THEN set_content(l.st, "Error", "load_data_failed")
                      ELSE l.st

handle_database_detail(st) ==
    IF get_selected_database(st) # None THEN set_content(st, "Database", "db_detail")
    ELSE st

handle_table_detail(st) ==
    IF get_selected_table(st) # None THEN set_content(st, "Tables", "table_detail")
    ELSE st

\* handle_switch_database showing the database list with the database kept
handle_switch_database_keep_db(st) ==
    IF st.current_db # None
    THEN set_content([st EXCEPT !.show_databases = TRUE], "Welcome", "welcome")
    ELSE st

handle_switch_database(st) ==
    IF st.current_db # None THEN BackToDatabases(st) ELSE st

(***************************************************************************)
(* App: the commands of SQL mode (ui/app.rs:669-772, 862-915).             *)
(***************************************************************************)
Use == <<"U", "S", "E", " ">>

parse_use_command(command) ==
    LET trimmed == trim(command)
    IN  IF starts_with(to_uppercase(trimmed), Use)
        THEN LET parts == split_whitespace(trimmed)
             IN  IF Len(parts) >= 2
                 THEN LET db_name == trim(trim_end_matches(parts[2], ";"))
                      IN  IF db_name # << >> THEN Some(db_name) ELSE None
                 ELSE None
        ELSE None

\* handle_use_database without the existence test of app.rs:880-884
handle_use_database_unvalidated(st, env, db_name) ==
    LET s0 == Log(st, "get_databases", << >>, env.databases.ok)
        r == rebuild_pool_for_database(s0, env, Some(db_name))
        s1 == Log([r.st EXCEPT !.current_db = Some(db_name),
                               !.status_current_db = Some(db_name),
                               !.show_databases = FALSE,
                               !.sidebar_current_db = Some(db_name),
                               !.input_current_db = Some(db_name)],
                  "set_current_db", db_name, TRUE)
        l == load_tables(set_content(s1, "Database", "use_loading"), env)
    IN  IF ~env.databases.ok THEN [st |-> s0, ok |-> FALSE]
        ELSE IF ~r.ok THEN [st |-> set_content(r.st, "Error", "switch_failed"), ok |-> TRUE]
        ELSE [st |-> set_content(l.st, "Database", "use_done"), ok |-> TRUE]

\* handle_use_database loading the tables before the switch of app.rs:894-900
handle_use_database_fetch_first(st, env, db_name) ==
    LET s0 == Log(st, "get_databases", << >>, env.databases.ok)
        r == rebuild_pool_for_database(s0, env, Some(db_name))
        l == load_tables(set_content(r.st, "Database", "use_loading"), env)
        s1 == Log([l.st EXCEPT !.current_db = Some(db_name),
                               !.status_current_db = Some(db_name),
                               !.show_databases = FALSE,
                               !.sidebar_current_db = Some(db_name),
                               !.input_current_db = Some(db_name)],
                  "set_current_db", db_name, TRUE)
    IN  IF ~env.databases.ok THEN [st |-> s0, ok |-> FALSE]
        ELSE IF ~(\E i \in DOMAIN env.databases.v : env.databases.v[i] = db_name)
        THEN [st |-> set_content(s0, "Error", "db_not_exist"), ok |-> TRUE]
        ELSE IF ~r.ok THEN [st |-> set_content(r.st, "Error", "switch_failed"), ok |-> TRUE]
        ELSE [st |-> set_content(s1, "Database", "use_done"), ok |-> TRUE]

\* the state after, and whether Ok(()) was returned (the ? of app.rs:879)
handle_use_database(st, env, db_name) ==
    LET s0 == Log(st, "get_databases", << >>, env.databases.ok)
    IN  IF ~env.databases.ok THEN [st |-> s0, ok |-> FALSE]
        ELSE IF ~(\E i \in DOMAIN env.databases.v : env.databases.v[i] = db_name)
        THEN [st |-> set_content(s0, "Error", "db_not_exist"), ok |-> TRUE]
        ELSE LET r == rebuild_pool_for_database(s0, env, Some(db_name))
             IN  IF ~r.ok
                 THEN [st |-> set_content(r.st, "Error", "switch_failed"), ok |-> TRUE]
                 ELSE LET s1 == Log([r.st EXCEPT !.current_db = Some(db_name),
                                                 !.status_current_db = Some(db_name),
                                                 !.show_databases = FALSE,
                                                 !.sidebar_current_db = Some(db_name),
                                                 !.input_current_db = Some(db_name)],
                                    "set_current_db", db_name, TRUE)
                          l == load_tables(set_content(s1, "Database", "use_loading"), env)
                      IN  IF ~l.ok
                          THEN [st |-> set_content(l.st, "Error", "load_tables_failed"),
                                ok |-> TRUE]
                          ELSE [st |-> set_content(l.st, "Database", "use_done"),
                                ok |-> TRUE]

\* u8::is_ascii_whitespace on the last byte of a char
is_ascii_whitespace(ch) == ch = " "

IsCharBoundary(s, b) == \E k \in 0..Len(s) : ByteOffset(s, k) = b

\* the block of app.rs:683-707: the command without a trailing \G or \g and
\* whether one was there; panic when the slice of app.rs:699 does not start
\* on a char boundary
StripVertical(raw_command) ==
    LET trimmed == trim_end(raw_command)
        ws == [j \in DOMAIN trimmed |-> is_ascii_whitespace(trimmed[j])]
        e1 == SkipLeft(ws, Len(trimmed))
        end == IF e1 > 0 /\ trimmed[e1] = ";"
               THEN SkipLeft(ws, e1 - 1) ELSE e1
        b == ByteOffset(trimmed, end)
        keep == [panic |-> FALSE, use_vertical |-> FALSE, command |-> raw_command]
    IN  IF b < 2 THEN keep
        ELSE IF ~IsCharBoundary(trimmed, b - 2)
        THEN [panic |-> TRUE, use_vertical |-> FALSE, command |-> raw_command]
        ELSE LET k == CharBoundary(trimmed, b - 2)
                 tail == SubSeq(trimmed, k + 1, end)
             IN  IF tail = <<"\\", "G">> \/ tail = <<"\\", "g">>
                 THEN [panic |-> FALSE, use_vertical |-> TRUE,
                       command |-> trim_end(trim_end_matches(
                                       trim_end(SubSeq(trimmed, 1, k)), ";"))]
                 ELSE keep

HelpCommands == { <<"\\", "h">>, <<"\\", "h", "e", "l", "p">> }

ExitCommands ==
    { <<"e", "x", "i", "t">>, <<"q", "u", "i", "t">>, <<"\\", "q">>,
      <<"\\", "q", "u", "i", "t">> }

QueryWords ==
    { <<"S","E","L","E","C","T">>, <<"S","H","O","W">>,
      <<"D","E","S","C","R","I","B","E">>, <<"D","E","S","C">>,
      <<"E","X","P","L","A","I","N">> }

\* the first word of app.rs:726-731, in upper case
first_word(command) ==
    LET words == split_whitespace(trim_start(command))
    IN  to_uppercase(IF words # << >> THEN words[1] ELSE << >>)

\* the match of app.rs:724-769 on a statement
execute_statement(st, env, command, use_vertical) ==
    IF first_word(command) \in QueryWords
    THEN LET s1 == Log(st, "execute_query_raw", command, env.query.ok)
         IN  IF env.query.ok
             THEN IF env.query.v.rows = << >>
                  THEN set_content(s1, "Database", "query_ok_empty")
                  ELSE IF use_vertical
                  THEN set_table_data_vertical(s1, env.query.v.headers, env.query.v.rows)
                  ELSE set_table_data(s1, env.query.v.headers, env.query.v.rows)
             ELSE set_content(s1, "Error", "sql_error")
    ELSE LET s1 == Log(st, "execute_non_query", command, env.non_query.ok)
         IN  IF env.non_query.ok THEN set_content(s1, "Database", "exec_ok")
             ELSE set_content(s1, "Error", "sql_error")

\* the state after and what was returned: "Ok(false)", "Ok(true)", "Err",
\* or "panic"
handle_sql_command(st, env) ==
    LET raw_command == st.input
        s1 == WithEd(add_to_history(st, raw_command), clear)
        v == StripVertical(raw_command)
        db_name == parse_use_command(v.command)
    IN  IF trim(raw_command) = << >> THEN [st |-> s1, ret |-> "Ok(false)"]
        ELSE IF v.panic THEN [st |-> s1, ret |-> "panic"]
        ELSE IF db_name # None
        THEN LET u == handle_use_database(s1, env, db_name[1])
             IN  [st |-> u.st, ret |-> IF u.ok THEN "Ok(false)" ELSE "Err"]
        ELSE IF v.command \in HelpCommands
        THEN [st |-> set_content(s1, "Help", "help"), ret |-> "Ok(false)"]
        ELSE IF v.command \in ExitCommands THEN [st |-> s1, ret |-> "Ok(true)"]
        ELSE [st |-> execute_statement(s1, env, v.command, v.use_vertical),
              ret |-> "Ok(false)"]

\* KeyCode::Enter of SQL mode (app.rs:239-256) without the Err arm: the
\* error of the command is returned to the event loop
sql_enter_propagating(st, env) ==
    LET h == handle_sql_command(IF st.show_suggestions THEN hide_suggestions(st) ELSE st,
                                env)
    IN  [h.st EXCEPT !.result = IF h.ret = "Err" THEN "Err" ELSE h.ret]

\* KeyCode::Enter of SQL mode (app.rs:239-256), result included
sql_enter(st, env) ==
    LET h == handle_sql_command(IF st.show_suggestions THEN hide_suggestions(st) ELSE st,
                                env)
    IN  IF h.ret = "Err"
        THEN [set_content(h.st, "Error", "sql_exec_error") EXCEPT !.result = "Ok(false)"]
        ELSE [h.st EXCEPT !.result = h.ret]

(***************************************************************************)
(* handle_key_event, Command mode (ui/app.rs:361-451), result included.    *)
(***************************************************************************)
\* q that ends the session wherever it is pressed
cmd_q_everywhere(st) == ReturnOk(st, TRUE)

cmd_q(st) ==
    IF is_at_root(st) THEN ReturnOk(st, TRUE) ELSE ReturnOk(handle_escape(st), FALSE)

cmd_c(st, ctrl) == ReturnOk(st, ctrl)

cmd_esc(st) == ReturnOk(handle_escape(st), FALSE)

cmd_up(st) ==
    ReturnOk(IF st.content_type \in {"TableSchema", "TableData"} THEN st
             ELSE previous_item(st), FALSE)

cmd_down(st) ==
    ReturnOk(IF st.content_type \in {"TableSchema", "TableData"} THEN st
             ELSE next_item(st), FALSE)

cmd_enter(st, env) == ReturnOk(handle_enter(st, env), FALSE)

cmd_space(st, env) == ReturnOk(handle_space(st, env), FALSE)

cmd_d(st) == ReturnOk(handle_database_detail(st), FALSE)

cmd_t(st) == ReturnOk(handle_table_detail(st), FALSE)

cmd_s(st) == ReturnOk(handle_switch_database(st), FALSE)

\* ':' without the reset_history_index of app.rs:447
cmd_colon_keeps_index(st) ==
    ReturnOk([st EXCEPT !.mode = "SQL", !.input_current_db = st.current_db], FALSE)

cmd_colon(st) ==
    ReturnOk(reset_history_index([st EXCEPT !.mode = "SQL",
                                            !.input_current_db = st.current_db]), FALSE)

(***************************************************************************)
(* The keys of SQL mode as actions.                                        *)
(***************************************************************************)
KeySqlEsc ==
    /\ Running /\ mode = "SQL"
    /\ Commit(ReturnOk(sql_esc(Begin), FALSE))

KeySqlHome ==
    /\ Running /\ mode = "SQL"
    /\ Commit(ReturnOk(sql_home(Begin), FALSE))

KeySqlEnd ==
    /\ Running /\ mode = "SQL"
    /\ Commit(ReturnOk(sql_end(Begin), FALSE))

KeySqlUp ==
    /\ Running /\ mode = "SQL"
    /\ Commit(ReturnOk(sql_up(Begin), FALSE))

KeySqlDown ==
    /\ Running /\ mode = "SQL"
    /\ Commit(ReturnOk(sql_down(Begin), FALSE))

KeySqlTab ==
    /\ Running /\ mode = "SQL"
    /\ Commit(ReturnOk(sql_tab(Begin), FALSE))

KeySqlRight ==
    /\ Running /\ mode = "SQL"
    /\ \E alt \in BOOLEAN : Commit(ReturnOk(sql_right(Begin, alt), FALSE))

KeySqlLeft ==
    /\ Running /\ mode = "SQL"
    /\ \E alt \in BOOLEAN : Commit(ReturnOk(sql_left(Begin, alt), FALSE))

\* a key is a char and its modifiers
KeySqlChar(keys) ==
    /\ Running /\ mode = "SQL"
    /\ \E k \in keys : Commit(ReturnOk(sql_char(Begin, k[1], k[2]), FALSE))

KeySqlBackspace ==
    /\ Running /\ mode = "SQL"
    /\ Commit(ReturnOk(sql_backspace(Begin), FALSE))

KeySqlEnter(envs) ==
    /\ Running /\ mode = "SQL"
    /\ \E env \in envs : Commit(sql_enter(Begin, env))

(***************************************************************************)
(* The keys of Command mode as actions.                                    *)
(***************************************************************************)
KeyQ ==
    /\ Running /\ mode = "Command"
    /\ Commit(cmd_q(Begin))

KeyC ==
    /\ Running /\ mode = "Command"
    /\ \E ctrl \in BOOLEAN : Commit(cmd_c(Begin, ctrl))

KeyEsc ==
    /\ Running /\ mode = "Command"
    /\ Commit(cmd_esc(Begin))

KeyUp ==
    /\ Running /\ mode = "Command"
    /\ Commit(cmd_up(Begin))

KeyDown ==
    /\ Running /\ mode = "Command"
    /\ Commit(cmd_down(Begin))

KeyEnter(envs) ==
    /\ Running /\ mode = "Command"
    /\ \E env \in envs : Commit(cmd_enter(Begin, env))

KeySpace(envs) ==
    /\ Running /\ mode = "Command"
    /\ \E env \in envs : Commit(cmd_space(Begin, env))

KeyD ==
    /\ Running /\ mode = "Command"
    /\ Commit(cmd_d(Begin))

KeyT ==
    /\ Running /\ mode = "Command"
    /\ Commit(cmd_t(Begin))

KeyS ==
    /\ Running /\ mode = "Command"
    /\ Commit(cmd_s(Begin))

KeyColon ==
    /\ Running /\ mode = "Command"
    /\ Commit(cmd_colon(Begin))

(***************************************************************************)
(* SpecEditor: the editing keys of SQL mode on a session that has opened   *)
(* database d and fetched the schema of its table a.  Enter and Esc are    *)
(* not pressed; the history is one a session can have built before.        *)
(***************************************************************************)
EditorChars == {"a", " ", ".", "U+00E9"}

EditorKeys ==
    {<<ch, "none">> : ch \in EditorChars}
    \cup {<<ch, "ctrl">> : ch \in {"a", "e", "b", "f", " "}}
    \cup {<<ch, "alt">> : ch \in {"b", "f", "."}}

EditorAllowed(s) == Len(s) <= MaxLen

EditorHistories ==
    { << >>,
      << <<"U+00E9">>, <<"a", ".">> >> }

EditorDb == <<"d">>
EditorTable == <<"a">>
EditorColumns == << <<"U+00E9">>, <<"a", "a">> >>
EditorSchema == [i \in DOMAIN EditorColumns |->
                    [name |-> EditorColumns[i], data_type |-> "int"]]

InitEditor ==
    /\ BlockedInRead /\ NoRequest
    /\ input = << >>
    /\ cursor_pos = 0
    /\ mode = "SQL"
    /\ history \in EditorHistories
    /\ history_index = Len(history)
    /\ input_current_db = Some(EditorDb)
    /\ show_suggestions = FALSE
    /\ suggestion_index = 0
    /\ external_suggestions = None
    /\ current_db = Some(EditorDb)
    /\ table_columns = [t \in {EditorTable} |-> EditorColumns]
    /\ config_database = Some(EditorDb)
    /\ pool_database = Some(EditorDb)
    /\ databases = <<EditorDb>>
    /\ tables = <<EditorTable>>
    /\ show_databases = FALSE
    /\ sidebar_current_db = Some(EditorDb)
    /\ db_selected = Some(0)
    /\ table_selected = Some(0)
    /\ content_type = "TableSchema"
    /\ content = "loading_schema"
    /\ current_table_name = Some(EditorTable)
    /\ schema_columns = EditorSchema
    /\ table_headers = << >>
    /\ table_rows = << >>
    /\ status_current_db = Some(EditorDb)
    /\ calls = << >>
    /\ result = "none"

EdHome == KeySqlHome /\ EditorAllowed(input')
EdEnd == KeySqlEnd /\ EditorAllowed(input')
EdUp == KeySqlUp /\ EditorAllowed(input')
EdDown == KeySqlDown /\ EditorAllowed(input')
EdTab == KeySqlTab /\ EditorAllowed(input')
EdRight == KeySqlRight /\ EditorAllowed(input')
EdLeft == KeySqlLeft /\ EditorAllowed(input')
EdChar == KeySqlChar(EditorKeys) /\ EditorAllowed(input')
EdBackspace == KeySqlBackspace /\ EditorAllowed(input')

NextEditor ==
    \/ EdHome \/ EdEnd \/ EdUp \/ EdDown \/ EdTab \/ EdRight \/ EdLeft
    \/ EdChar \/ EdBackspace

SpecEditor == InitEditor /\ [][NextEditor]_vars

(***************************************************************************)
(* Claims about the editor buffer, checked under SpecEditor.               *)
(***************************************************************************)
\* C1: after any sequence of editor operations the cursor is a codepoint
\* offset within the buffer: 0 <= cursor_pos <= number of chars of input.
C1_CursorInBounds == 0 <= cursor_pos /\ cursor_pos <= Len(input)

\* the cursor sits at the end of a full buffer whose byte length exceeds its
\* char count, so a byte-counting cursor would be out of bounds here
C1_Witness ==
    /\ Len(input) = MaxLen
    /\ cursor_pos = Len(input)
    /\ ByteLen(input) > Len(input)

\* C2: for every buffer, every cursor offset within it and every char,
\* add_char followed at once by delete_char gives back the text and the cursor.
C2_InsertDeleteRoundTrip ==
    \A ch \in EditorChars :
        LET e == add_char(input, cursor_pos, ch)
        IN  delete_char(e.input, e.cursor_pos) = Ed(input, cursor_pos)

\* an insertion point strictly inside the buffer, after a two-byte char
C2_Witness ==
    /\ 0 < cursor_pos /\ cursor_pos < Len(input)
    /\ input[cursor_pos] = "U+00E9"

(***************************************************************************)
(* SpecNav: a session from start-up.  The server had the one database a    *)
(* when the session began; later it has b, and a or not.  Every call may   *)
(* fail.  In SQL mode the user types one of NavCommands and presses Enter  *)
(* or Esc; Enter is pressed while the history stays within MaxHist         *)
(* entries.                                                                *)
(***************************************************************************)
NavDbA == <<"a">>
NavDbB == <<"b">>
NavDbLists == { <<NavDbB>>, <<NavDbB, NavDbA>> }

NavTable == <<"t">>
NavTableLists == { << >>, <<NavTable>> }

NavDetailedSchema ==
    << [name |-> <<"k">>, data_type |-> "int"], [name |-> <<"c">>, data_type |-> "text"] >>
NavSimpleSchema == << [name |-> <<"c">>, data_type |-> "text"] >>

NavQueryResults ==
    { NoRows,
      [headers |-> << <<"h">> >>, rows |-> << << <<"1">> >> >>] }

NavCommands == { <<"u","s","e"," ","a">>, <<"d","e","s","c">>, <<"x">> }

NavKeys == {<<ch, "none">> : ch \in UNION {Range(c) : c \in NavCommands}}

IsPrefix(s, c) == Len(s) <= Len(c) /\ SubSeq(c, 1, Len(s)) = s

NavAllowed(s) == \E c \in NavCommands : IsPrefix(s, c)

NavComplete(s) == s \in NavCommands \cup {<< >>}

\* what the environment answers when nothing is asked
NoEnv ==
    [databases |-> Err, connect |-> FALSE, tables |-> Err, detailed |-> Err,
     simple |-> Err, query |-> Failed(NoRows), non_query |-> Failed(0)]

NavResults(values, empty) == {Failed(empty)} \cup {Ok(v) : v \in values}

\* a database switch: the list of databases, the reconnect, the table list
NavSwitchEnvs ==
    { [NoEnv EXCEPT !.databases = d, !.connect = c, !.tables = tb] :
        d \in NavResults(NavDbLists, << >>), c \in BOOLEAN,
        tb \in NavResults(NavTableLists, << >>) }

\* a schema fetch: the detailed query and the simple one
NavSchemaEnvs ==
    { [NoEnv EXCEPT !.detailed = d, !.simple = s] :
        d \in NavResults({NavDetailedSchema}, << >>),
        s \in NavResults({NavSimpleSchema}, << >>) }

\* a statement: as a query and as a non-query
NavStatementEnvs ==
    { [NoEnv EXCEPT !.query = q, !.non_query = n] :
        q \in NavResults(NavQueryResults, NoRows), n \in NavResults({1}, 0) }

\* App::new and the first load: the welcome view over the database list
AppAtStartUp ==
    /\ input = << >>
    /\ cursor_pos = 0
    /\ mode = "Command"
    /\ history = << >>
    /\ history_index = 0
    /\ input_current_db = None
    /\ show_suggestions = FALSE
    /\ suggestion_index = 0
    /\ external_suggestions = None
    /\ current_db = None
    /\ table_columns = [t \in {} |-> << >>]
    /\ config_database = None
    /\ pool_database = None
    /\ databases = <<NavDbA>>
    /\ tables = << >>
    /\ show_databases = TRUE
    /\ sidebar_current_db = None
    /\ db_selected = Some(0)
    /\ table_selected = None
    /\ content_type = "Welcome"
    /\ content = "empty"
    /\ current_table_name = None
    /\ schema_columns = << >>
    /\ table_headers = << >>
    /\ table_rows = << >>
    /\ status_current_db = None
    /\ calls = << >>
    /\ result = "none"

InitNav == AppAtStartUp /\ BlockedInRead /\ NoRequest

NavEnterEnvs == IF show_databases THEN NavSwitchEnvs ELSE NavSchemaEnvs
NavEnter == KeyEnter(NavEnterEnvs)
NavSpace == KeySpace(NavStatementEnvs)
NavSqlChar == KeySqlChar(NavKeys) /\ NavAllowed(input')
NavSqlEnter ==
    /\ NavComplete(input)
    /\ Len(add_to_history(State, input).history) <= MaxHist
    /\ KeySqlEnter(NavSwitchEnvs \cup NavStatementEnvs)

NextNav ==
    \/ KeyQ \/ KeyC \/ KeyEsc \/ KeyUp \/ KeyDown \/ NavEnter \/ NavSpace
    \/ KeyD \/ KeyT \/ KeyS \/ KeyColon
    \/ NavSqlChar \/ KeySqlEsc \/ NavSqlEnter

SpecNav == InitNav /\ [][NextNav]_vars

(***************************************************************************)
(* Claims about navigation and commands, checked under SpecNav.  A claim   *)
(* about what a key does is stated on every reachable state from which    *)
(* the key can be pressed, for every answer of the environment: After is   *)
(* the state the handler leaves.                                           *)
(***************************************************************************)
EnterAfter(env) == cmd_enter(Begin, env)
SqlEnterAfter(env) == sql_enter(Begin, env)

Ops(list) == [i \in DOMAIN list |-> list[i].op]
LastCall(list) == list[Len(list)]

\* the database a USE command in the buffer names, if it is one
UseName == parse_use_command(StripVertical(input).command)

\* a call of the application to the adapter that failed; the detailed schema
\* query is a step inside get_table_schema, not a call of the application
AdapterFailure(c) == ~c.ok /\ c.op # "try_get_table_schema_detailed"

\* C3: when the table-list fetch of Enter on a database, or a schema fetch,
\* fails, the cached database list, table list, column cache and current_db
\* are as before and the view is Error.
C3_FetchFailureKeepsState ==
    mode = "Command" =>
        \A env \in NavEnterEnvs :
            LET after == EnterAfter(env)
            IN  (after.calls # << >> /\ AdapterFailure(LastCall(after.calls))
                 /\ LastCall(after.calls).op \in {"get_tables", "get_table_schema_simple"})
                => /\ after.databases = databases
                   /\ after.tables = tables
                   /\ after.table_columns = table_columns
                   /\ after.current_db = current_db
                   /\ after.content_type = "Error"

\* C4: after a key event during which a call to the adapter failed, the
\* view is Error.
C4_FailureShowsError ==
    (\E i \in DOMAIN calls : AdapterFailure(calls[i])) => content_type = "Error"

\* C5: a key event during which a call to the adapter failed returns
\* Ok(false): the session goes on.
C5_FailureKeepsSession ==
    (\E i \in DOMAIN calls : ~calls[i].ok) => result = "Ok(false)"

\* the database list could not be fetched for USE: the one error that
\* handle_sql_command returns instead of showing
C5_Witness ==
    /\ calls = <<Call("get_databases", << >>, FALSE)>>
    /\ content_type = "Error" /\ content = "sql_exec_error"
    /\ result = "Ok(false)"

\* C6: Esc in Command mode on the Error view leaves the Error view for the
\* view before it (or its parent).
C6_EscLeavesError ==
    (mode = "Command" /\ content_type = "Error") => cmd_esc(Begin).content_type # "Error"

UseSteps == <<"get_databases", "connect", "set_current_db", "get_tables">>

C9_EnterOnDatabase ==
    (mode = "Command" /\ content_type = "Welcome"
     /\ get_selected_database(State) # None) =>
        \A env \in NavSwitchEnvs :
            LET after == EnterAfter(env)
            IN  IF env.connect /\ env.tables.ok
                THEN /\ after.current_db = get_selected_database(State)
                     /\ after.tables = env.tables.v
                     /\ after.content_type = "Tables"
                ELSE after.content_type = "Error"

\* database a was entered a second time, its table gone in between
C9_Witness ==
    /\ mode = "Command" /\ content_type = "Tables"
    /\ Ops(calls) = <<"set_current_db", "connect", "get_tables">>
    /\ LastCall(calls).ok
    /\ current_db = Some(NavDbA) /\ tables = << >>
    /\ NavTable \in DOMAIN table_columns

\* C10: Enter with table T selected in the table list: when the schema is
\* fetched, the column cache maps T to the fetched column names in their
\* order and the view is TableSchema; when the fetch fails the view is Error
\* and the cache is as before.
C10_EnterOnTable ==
    (mode = "Command" /\ get_selected_table(State) # None) =>
        \A env \in NavSchemaEnvs :
            LET after == EnterAfter(env)
                T == get_selected_table(State)[1]
                fetched == IF env.detailed.ok THEN env.detailed ELSE env.simple
            IN  IF fetched.ok
                THEN /\ T \in DOMAIN after.table_columns
                     /\ Len(after.table_columns[T]) = Len(fetched.v)
                     /\ \A i \in DOMAIN fetched.v :
                            after.table_columns[T][i] = fetched.v[i].name
                     /\ after.content_type = "TableSchema"
                ELSE /\ after.content_type = "Error"
                     /\ after.table_columns = table_columns

\* the detailed schema of t, two columns not in alphabetical order, was
\* fetched from the Tables view
C10_Witness ==
    /\ mode = "Command" /\ content_type = "TableSchema"
    /\ calls = <<Call("try_get_table_schema_detailed", NavTable, TRUE)>>
    /\ table_columns[NavTable] = << <<"k">>, <<"c">> >>

\* C11: in Command mode, Esc on the schema or the data of a table shows the
\* table list and leaves current_db, the cached table list and the sidebar
\* mode as they were; Esc on the table list shows Welcome with the database
\* list and no current database.
C11_EscBackNavigates ==
    mode = "Command" =>
        LET after == cmd_esc(Begin)
        IN  /\ content_type \in {"TableSchema", "TableData"}
               => /\ after.content_type = "Tables"
                  /\ after.current_db = current_db
                  /\ after.tables = tables
                  /\ after.show_databases = show_databases
            /\ content_type = "Tables"
               => /\ after.content_type = "Welcome"
                  /\ after.show_databases
                  /\ after.current_db = None

\* back on the table list of database a, from the schema or the data of t
C11_Witness ==
    /\ mode = "Command"
    /\ content_type = "Tables" /\ content = "tables_hint"
    /\ current_db = Some(NavDbA) /\ tables = <<NavTable>>
    /\ NavTable \in DOMAIN table_columns

\* the state after Char(ch) without modifiers in SQL mode
SqlCharAfter(ch) == ReturnOk(sql_char(Begin, ch, "none"), FALSE)

\* C12: in Command mode q ends the session exactly at the root (Welcome, the
\* database list shown, no current database) and everywhere else does what
\* Esc does; in SQL mode q is inserted at the cursor and the session goes on.
C12_QuitOnlyAtRoot ==
    /\ mode = "Command" =>
           LET after == cmd_q(Begin)
           IN  /\ after.result = "Ok(true)"
                   <=> (content_type = "Welcome" /\ show_databases /\ current_db = None)
               /\ after.result = "Ok(true)" => after = ReturnOk(Begin, TRUE)
               /\ after.result # "Ok(true)" => after = cmd_esc(Begin)
    /\ mode = "SQL" =>
           LET after == SqlCharAfter("q")
           IN  /\ after.input = StringInsert(input, ByteOffset(input, cursor_pos), "q")
               /\ after.cursor_pos = cursor_pos + 1
               /\ after.mode = "SQL"
               /\ after.result = "Ok(false)"

\* the session was ended at the root after coming back from database a
C12_Witness ==
    /\ mode = "Command" /\ result = "Ok(true)"
    /\ content_type = "Welcome" /\ content = "welcome"
    /\ show_databases /\ current_db = None
    /\ sidebar_current_db = Some(NavDbA)

(***************************************************************************)
(* SpecHistory: the command line of a session that has entered database a *)
(* from the start-up view.  The user presses ':', types one of             *)
(* HistCommands, presses Enter (on any prefix of them, while the history    *)
(* stays within MaxPush entries), Up, Down, Tab and Esc.                    *)
(***************************************************************************)
MaxPush == 3

HistA == <<"a", "U+00E9">>
HistB == <<"b">>
HistCommands == { HistA, HistB, <<" ">> }

HistKeys == {<<ch, "none">> : ch \in UNION {Range(c) : c \in HistCommands}}

HistAllowed(s) == \E c \in HistCommands : IsPrefix(s, c)

\* the state after Enter on database a at start-up, its table list fetched
InitHistory ==
    /\ BlockedInRead /\ NoRequest
    /\ input = << >>
    /\ cursor_pos = 0
    /\ mode = "Command"
    /\ history = << >>
    /\ history_index = 0
    /\ input_current_db = None
    /\ show_suggestions = FALSE
    /\ suggestion_index = 0
    /\ external_suggestions = None
    /\ current_db = Some(NavDbA)
    /\ table_columns = [t \in {} |-> << >>]
    /\ config_database = Some(NavDbA)
    /\ pool_database = Some(NavDbA)
    /\ databases = <<NavDbA>>
    /\ tables = <<NavTable>>
    /\ show_databases = FALSE
    /\ sidebar_current_db = Some(NavDbA)
    /\ db_selected = Some(0)
    /\ table_selected = Some(0)
    /\ content_type = "Tables"
    /\ content = "tables_of"
    /\ current_table_name = None
    /\ schema_columns = << >>
    /\ table_headers = << >>
    /\ table_rows = << >>
    /\ status_current_db = Some(NavDbA)
    /\ calls = <<Call("set_current_db", NavDbA, TRUE), Call("connect", NavDbA, TRUE),
                 Call("get_tables", NavDbA, TRUE)>>
    /\ result = "Ok(false)"

HistChar == KeySqlChar(HistKeys) /\ HistAllowed(input')
HistEnter ==
    /\ Len(add_to_history(State, input).history) <= MaxPush
    /\ KeySqlEnter(NavStatementEnvs)
HistTab == KeySqlTab /\ HistAllowed(input')

NextHistory ==
    \/ KeyColon \/ HistChar \/ HistEnter \/ KeySqlUp \/ KeySqlDown \/ HistTab \/ KeySqlEsc

SpecHistory == InitHistory /\ [][NextHistory]_vars

(***************************************************************************)
(* Claims about the command line, checked under SpecHistory.               *)
(***************************************************************************)
SqlEscAfter == ReturnOk(sql_esc(Begin), FALSE)

\* C13: in SQL mode Esc with the popup open closes the popup and nothing
\* else, the mode staying SQL, and a second Esc then leaves for Command
\* mode; Esc with no popup open leaves for Command mode at once.
C13_TwoStageEsc ==
    mode = "SQL" =>
        LET after == SqlEscAfter
        IN  IF show_suggestions
            THEN /\ after = [hide_suggestions(Begin) EXCEPT !.result = "Ok(false)"]
                 /\ after.mode = "SQL" /\ ~after.show_suggestions
                 /\ after.input = input /\ after.cursor_pos = cursor_pos
                 /\ sql_esc(after).mode = "Command"
            ELSE /\ after.mode = "Command"
                 /\ after = [Begin EXCEPT !.mode = "Command", !.result = "Ok(false)"]

\* Command mode was reached with a blank in the buffer: the blank had
\* opened the popup, so it took one Esc to close it and one to leave
C13_Witness ==
    /\ mode = "Command" /\ input = <<" ">>
    /\ ~show_suggestions

\* C15: ':' in Command mode enters SQL mode, sets the prompt database of the
\* editor to current_db and the history cursor to the length of the history,
\* and leaves the view, current_db and the cached lists as they were.
C15_ColonEntersSql ==
    mode = "Command" =>
        LET after == cmd_colon(Begin)
        IN  /\ after.mode = "SQL"
            /\ after.input_current_db = current_db
            /\ after.history_index = Len(history)
            /\ after.content_type = content_type /\ after.content = content
            /\ after.current_db = current_db
            /\ after.databases = databases /\ after.tables = tables
            /\ after.table_columns = table_columns
            /\ after.show_databases = show_databases
            /\ after.result = "Ok(false)"

\* SQL mode was entered again with a recalled entry left in the buffer: the
\* prompt shows database a and the history cursor is back on the live line
C15_Witness ==
    /\ mode = "SQL" /\ input_current_db = Some(NavDbA)
    /\ Len(history) >= 2 /\ input = history[1]
    /\ history_index = Len(history)

\* the history after pushing the commands of list, in order, on an empty one
RECURSIVE Pushed(_)
Pushed(list) ==
    IF list = << >> THEN << >>
    ELSE add_to_history([State EXCEPT !.history = Pushed(SubSeq(list, 1, Len(list) - 1))],
                        list[Len(list)]).history

\* C18: Enter appends the buffer to the history exactly when it is not blank
\* and differs from the last entry; the history holds no blank entry and no
\* two adjacent equal entries; pushing A, A gives one entry and A, B, A
\* three.
C18_HistoryPush ==
    /\ \A i \in DOMAIN history : trim(history[i]) # << >>
    /\ \A i \in 1..(Len(history) - 1) : history[i] # history[i + 1]
    /\ mode = "SQL" =>
           \A env \in NavStatementEnvs :
               sql_enter(Begin, env).history =
                   IF trim(input) # << >>
                      /\ (history = << >> \/ history[Len(history)] # input)
                   THEN Append(history, input) ELSE history
    /\ Pushed(<<HistA, HistA>>) = <<HistA>>
    /\ Pushed(<<HistA, HistB, HistA>>) = <<HistA, HistB, HistA>>

\* A, B, A were submitted, in this order
C18_Witness == history = <<HistA, HistB, HistA>>

\* C19: with no popup open, Up above index 0 decrements the history cursor
\* and puts the entry at the new index in the buffer, the cursor at its end,
\* and at index 0 changes nothing; Down below the length of the history
\* increments the cursor and puts the entry at the new index in the buffer,
\* or clears the buffer when the new index is the length; at the length
\* Down clears the buffer.
C19_HistoryNavigation ==
    (mode = "SQL" /\ ~show_suggestions) =>
        LET up == sql_up(Begin)
            down == sql_down(Begin)
            n == Len(history)
        IN  /\ history_index <= n
            /\ IF history_index > 0
               THEN /\ up.history_index = history_index - 1
                    /\ up.input = history[history_index]
                    /\ up.cursor_pos = Len(history[history_index])
                    /\ get_history_up(Begin).ret = Some(history[history_index])
               ELSE /\ get_history_up(Begin).ret = None
                    /\ up = Begin
            /\ IF history_index + 1 < n
               THEN /\ down.history_index = history_index + 1
                    /\ down.input = history[history_index + 2]
                    /\ down.cursor_pos = Len(history[history_index + 2])
                    /\ get_history_down(Begin).ret = Some(history[history_index + 2])
               ELSE /\ down.history_index = n
                    /\ get_history_down(Begin).ret = None
                    /\ down.input = << >> /\ down.cursor_pos = 0
            /\ up.history = history /\ down.history = history

\* Up was pressed until the oldest of three entries, a two-char one with a
\* two-byte char, stood in the buffer
C19_Witness ==
    /\ mode = "SQL" /\ Len(history) = 3 /\ history_index = 0
    /\ input = HistA /\ history[1] = HistA /\ cursor_pos = 2

(***************************************************************************)
(* SpecSubmit: the commands of SQL mode.  The server had the databases a   *)
(* and b at start-up; the session has entered a and pressed ':'.  The user *)
(* types one of SubCommands and presses Enter, while the history stays     *)
(* within MaxHist entries.                                                 *)
(***************************************************************************)
SubExit == <<"\\", "q">>
SubExitVertical == <<"\\", "q", "\\", "G">>
SubHelp == <<"\\", "h">>
SubQuery == <<"D", "e", "s", "c", " ", "t">>
\* DESC of a table whose name is one three-byte char
SubQueryWide == <<"D", "e", "s", "c", " ", "U+4E2D">>
SubNonQuery == <<"x">>
SubUse == <<"U", "S", "E", " ", "b">>

SubCommands ==
    { SubExit, SubExitVertical, SubHelp, SubQuery, SubQueryWide, SubNonQuery, SubUse,
      <<" ">> }

SubKeys == {<<ch, "none">> : ch \in UNION {Range(c) : c \in SubCommands}}

SubAllowed(s) == \E c \in SubCommands : IsPrefix(s, c)

SubEnvs == NavSwitchEnvs \cup NavStatementEnvs

InitSubmit ==
    /\ BlockedInRead /\ NoRequest
    /\ input = << >>
    /\ cursor_pos = 0
    /\ mode = "SQL"
    /\ history = << >>
    /\ history_index = 0
    /\ input_current_db = Some(NavDbA)
    /\ show_suggestions = FALSE
    /\ suggestion_index = 0
    /\ external_suggestions = None
    /\ current_db = Some(NavDbA)
    /\ table_columns = [t \in {} |-> << >>]
    /\ config_database = Some(NavDbA)
    /\ pool_database = Some(NavDbA)
    /\ databases = <<NavDbA, NavDbB>>
    /\ tables = <<NavTable>>
    /\ show_databases = FALSE
    /\ sidebar_current_db = Some(NavDbA)
    /\ db_selected = Some(0)
    /\ table_selected = Some(0)
    /\ content_type = "Tables"
    /\ content = "tables_of"
    /\ current_table_name = None
    /\ schema_columns = << >>
    /\ table_headers = << >>
    /\ table_rows = << >>
    /\ status_current_db = Some(NavDbA)
    /\ calls = << >>
    /\ result = "Ok(false)"

SubChar == KeySqlChar(SubKeys) /\ SubAllowed(input')
SubEnter ==
    /\ input \in SubCommands
    /\ Len(add_to_history(State, input).history) <= MaxHist
    /\ KeySqlEnter(SubEnvs)

NextSubmit == SubChar \/ KeySqlBackspace \/ SubEnter

SpecSubmit == InitSubmit /\ [][NextSubmit]_vars

(***************************************************************************)
(* Claims about the commands of SQL mode, checked under SpecSubmit.  The   *)
(* command of a buffer is the buffer without a trailing vertical-output    *)
(* mark, as handle_sql_command computes it.                                *)
(***************************************************************************)
SubmittedCommand == StripVertical(input).command

\* C14: Enter in SQL mode on a buffer that is not an exit command leaves the
\* mode SQL, the buffer empty and the cursor at 0, has offered the buffer to
\* the history, and the session goes on, whatever the adapter answers.
C14_EnterKeepsSqlMode ==
    (mode = "SQL" /\ SubmittedCommand \notin ExitCommands) =>
        \A env \in SubEnvs :
            LET after == SqlEnterAfter(env)
            IN  /\ after.mode = "SQL"
                /\ after.input = << >> /\ after.cursor_pos = 0
                /\ after.history = add_to_history(State, input).history
                /\ after.result = "Ok(false)"

\* the calls of a key event that execute a statement
Executions(list) ==
    SelectSeq(Ops(list), LAMBDA op : op \in {"execute_query_raw", "execute_non_query"})

\* C16: Enter on a buffer that is not blank and not a USE, help or exit
\* command makes exactly one adapter call: execute_query_raw when the first
\* word of the command, in upper case, is SELECT, SHOW, DESCRIBE, DESC or
\* EXPLAIN, and execute_non_query otherwise.
C16_StatementRouting ==
    (mode = "SQL" /\ trim(input) # << >>
     /\ parse_use_command(SubmittedCommand) = None
     /\ SubmittedCommand \notin (HelpCommands \cup ExitCommands)) =>
        \A env \in NavStatementEnvs :
            LET after == SqlEnterAfter(env)
            IN  /\ Len(after.calls) = 1
                /\ Executions(after.calls) =
                       IF first_word(SubmittedCommand) \in QueryWords
                       THEN <<"execute_query_raw">> ELSE <<"execute_non_query">>
                /\ after.calls[1].arg = SubmittedCommand

\* C17: Enter in SQL mode ends the session, without a call to the adapter,
\* when the command is exit, quit, \q or \quit, and on every other buffer
\* the session goes on.
C17_ExitCommands ==
    mode = "SQL" =>
        \A env \in SubEnvs :
            LET after == SqlEnterAfter(env)
            IN  IF SubmittedCommand \in ExitCommands
                THEN after.result = "Ok(true)" /\ after.calls = << >>
                ELSE after.result = "Ok(false)"

\* C20: with USE and a blank in the buffer, in any case of the letters, and
\* the cursor at the end, the completion offers the cached database names,
\* all of them and in their order.
C20_UseOffersDatabases ==
    (mode = "SQL" /\ to_lowercase(input) = <<"u", "s", "e", " ">>
     /\ cursor_pos = Len(input)) =>
        LET after == update_context_suggestions(Begin)
        IN  /\ after.external_suggestions = Some(databases)
            /\ after.show_suggestions /\ after.suggestion_index = 0
            /\ compute_suggestions(after) = databases
            /\ show_suggestions /\ external_suggestions = Some(databases)

(***************************************************************************)
(* SpecComplete: completion against the cached names.  The session has     *)
(* entered database "used", whose tables are "t" and "uses".  In Command   *)
(* mode the user moves over the table list and presses Enter on a table    *)
(* (the schema fetch answering or failing); with ':' the user enters SQL   *)
(* mode and types a prefix of one of CompCommands, presses Backspace, Tab  *)
(* and Esc.                                                                *)
(***************************************************************************)
CompDb == <<"u","s","e","d">>
CompT == <<"t">>
CompUses == <<"u","s","e","s">>
CompTables == <<CompT, CompUses>>

CompFromUs == <<"S","E","L","E","C","T"," ","*"," ","F","R","O","M"," ","u","s">>
CompFromUse == CompFromUs \o <<"e">>
CompTDot == <<"t", ".">>
CompUsesDot == CompUses \o <<".">>
CompCommands == { CompFromUse, CompTDot, CompUsesDot }

CompKeys == {<<ch, "none">> : ch \in UNION {Range(c) : c \in CompCommands}}

CompAllowed(s) == \E c \in CompCommands : IsPrefix(s, c)

\* the state after Enter on database "used" at start-up, its table list fetched
InitComplete ==
    /\ BlockedInRead /\ NoRequest
    /\ input = << >>
    /\ cursor_pos = 0
    /\ mode = "Command"
    /\ history = << >>
    /\ history_index = 0
    /\ input_current_db = None
    /\ show_suggestions = FALSE
    /\ suggestion_index = 0
    /\ external_suggestions = None
    /\ current_db = Some(CompDb)
    /\ table_columns = [t \in {} |-> << >>]
    /\ config_database = Some(CompDb)
    /\ pool_database = Some(CompDb)
    /\ databases = <<CompDb>>
    /\ tables = CompTables
    /\ show_databases = FALSE
    /\ sidebar_current_db = Some(CompDb)
    /\ db_selected = Some(0)
    /\ table_selected = Some(0)
    /\ content_type = "Tables"
    /\ content = "tables_of"
    /\ current_table_name = None
    /\ schema_columns = << >>
    /\ table_headers = << >>
    /\ table_rows = << >>
    /\ status_current_db = Some(CompDb)
    /\ calls = <<Call("set_current_db", CompDb, TRUE), Call("connect", CompDb, TRUE),
                 Call("get_tables", CompDb, TRUE)>>
    /\ result = "Ok(false)"

CompChar == KeySqlChar(CompKeys) /\ CompAllowed(input')
CompBackspace == KeySqlBackspace /\ CompAllowed(input)
CompEnter == KeyEnter(NavSchemaEnvs)

NextComplete ==
    \/ KeyColon \/ KeyUp \/ KeyDown \/ CompEnter
    \/ CompChar \/ CompBackspace \/ KeySqlTab \/ KeySqlEsc

SpecComplete == InitComplete /\ [][NextComplete]_vars

\* the state as the last char of "SELECT * FROM use" is typed
AtFromUs == mode = "SQL" /\ Running /\ input = CompFromUs /\ cursor_pos = Len(CompFromUs)

\* C21 as stated: typing "SELECT * FROM use" to its end leaves the
\* completion on the keyword set, no list of cached names installed.
C21_FromUseIsKeyword ==
    AtFromUs =>
        LET after == sql_char(Begin, "e", "none")
        IN  /\ after.external_suggestions = None
            /\ Range(compute_suggestions(after)) \subseteq Range(DefaultKeywords)

\* C21, amended: typing "SELECT * FROM use" to its end classifies the
\* context as Table, never Database: the buffer before the token ends with
\* "from ", so the popup opens on the cached table names that start with
\* "use" and offers neither a database name nor a keyword.
C21_FromUseIsTable ==
    AtFromUs =>
        LET after == sql_char(Begin, "e", "none")
        IN  /\ after.input = CompFromUse /\ after.cursor_pos = Len(CompFromUse)
            /\ after.external_suggestions = Some(<<CompUses>>)
            /\ after.show_suggestions /\ after.suggestion_index = 0
            /\ compute_suggestions(after) = <<CompUses>>
            /\ CompDb \notin Range(compute_suggestions(after))
            /\ Range(compute_suggestions(after)) \cap Range(DefaultKeywords) = {}

C21_Witness ==
    /\ mode = "SQL" /\ input = CompFromUse /\ cursor_pos = Len(CompFromUse)
    /\ show_suggestions /\ external_suggestions = Some(<<CompUses>>)
    /\ CompDb \in Range(databases)

\* the schema fetch of table T answered during the last key event
Fetched(T, trace) ==
    \E i \in DOMAIN trace :
        /\ trace[i].op \in {"try_get_table_schema_detailed", "get_table_schema_simple"}
        /\ trace[i].arg = T /\ trace[i].ok

\* C22: the column cache of a table changes only by Enter on that table in
\* Command mode with its schema fetch answered, and then holds the fetched
\* column names; no key of SQL mode that computes suggestions calls the
\* adapter; typing "T." offers exactly the cached columns of T when T has
\* been fetched and nothing at all (popup closed, no candidate) when not.
C22_ColumnsOnlyAfterFetch ==
    [][ /\ \A T \in DOMAIN table_columns' :
            (T \notin DOMAIN table_columns \/ table_columns'[T] # table_columns[T]) =>
                /\ mode = "Command" /\ get_selected_table(State) = Some(T)
                /\ Fetched(T, calls')
                /\ table_columns'[T] = ColumnNames(schema_columns')
        /\ DOMAIN table_columns \subseteq DOMAIN table_columns'
        /\ (mode = "Command" /\ \E T \in Range(tables) : Fetched(T, calls')) =>
                \E T \in Range(tables) : Fetched(T, calls') /\ T \in DOMAIN table_columns'
        /\ mode = "SQL" => calls' = << >>
        /\ \A T \in Range(tables) :
            (mode = "SQL" /\ input = T /\ cursor_pos = Len(T)) =>
                LET after == sql_char(Begin, ".", "none")
                IN  /\ after.calls = << >>
                    /\ after.table_columns = table_columns
                    /\ IF T \in DOMAIN table_columns
                       THEN /\ after.external_suggestions = Some(table_columns[T])
                            /\ after.show_suggestions
                            /\ compute_suggestions(after) = table_columns[T]
                       ELSE /\ after.external_suggestions = None
                            /\ ~after.show_suggestions
                            /\ compute_suggestions(after) = << >>
      ]_vars

\* "t." typed after Enter on t, while the schema of "uses" was never fetched
C22_Witness ==
    /\ mode = "SQL" /\ input = CompTDot /\ cursor_pos = Len(CompTDot)
    /\ CompT \in DOMAIN table_columns /\ CompUses \notin DOMAIN table_columns
    /\ show_suggestions /\ external_suggestions = Some(table_columns[CompT])
    /\ calls = << >>

(***************************************************************************)
(* Claims about applying a suggestion and about the word motions, checked  *)
(* under SpecEditor: the operation is applied to every buffer and cursor   *)
(* the editor reaches.                                                     *)
(***************************************************************************)
EditorSuggestions == { <<"U+00E9">>, <<"a", "a">>, <<"a", " ">> }

\* the start of the run of word chars that ends at offset c of s
WordRunStart(s, c) ==
    CHOOSE j \in 0..c :
        /\ \A k \in (j + 1)..c : is_word_char(s[k])
        /\ j = 0 \/ ~is_word_char(s[j])

\* C23: apply_suggestion(sug) replaces the run of word chars that ends at the
\* cursor by sug and puts the cursor right after sug; then, when the char
\* after the cursor is whitespace nothing is inserted, and otherwise (end of
\* buffer included) one blank is inserted and the cursor moves past it.
\* Applying "SELECT" to "SEL" with the cursor at 3 gives "SELECT " and 7.
C23_ApplySuggestion ==
    /\ apply_suggestion(<<"S","E","L">>, 3, <<"S","E","L","E","C","T">>)
           = Ed(<<"S","E","L","E","C","T"," ">>, 7)
    /\ \A sug \in EditorSuggestions :
        LET e == apply_suggestion(input, cursor_pos, sug)
            start == WordRunStart(input, cursor_pos)
            head == SubSeq(input, 1, start) \o sug
            rest == SubSeq(input, cursor_pos + 1, Len(input))
        IN  IF rest # << >> /\ is_whitespace(rest[1])
            THEN e = Ed(head \o rest, Len(head))
            ELSE e = Ed(head \o <<" ">> \o rest, Len(head) + 1)

\* Tab on "a." has put the first column of table a in place of the token
\* and a blank after it, the popup closed by the application
C23_Witness ==
    /\ input = <<"U+00E9", " ">> /\ cursor_pos = 2
    /\ ~show_suggestions /\ external_suggestions = Some(EditorColumns)

\* Alt-b followed by Alt-f, from the cursor of the current state
LeftThenRight ==
    LET l == move_word_left(input, cursor_pos)
    IN  move_word_right(l.input, l.cursor_pos)

\* C28: from a cursor strictly inside the buffer, the word motion to the left
\* followed by the word motion to the right leaves the text as it was and the
\* cursor at an offset of the buffer that is not before the one it started
\* from.
C28_LeftThenRight ==
    (0 < cursor_pos /\ cursor_pos < Len(input)) =>
        /\ LeftThenRight.input = input
        /\ LeftThenRight.cursor_pos >= cursor_pos
        /\ LeftThenRight.cursor_pos \in 0..Len(input)
        /\ IsCharBoundary(input,
                          byte_index_for_char_pos(input, LeftThenRight.cursor_pos))

\* an interior cursor after a word and a blank: the motion to the left goes
\* to the start of the word, the motion to the right comes back over the
\* word and the blank, past a two-byte char or not
C28_Witness ==
    /\ 0 < cursor_pos /\ cursor_pos < Len(input)
    /\ is_whitespace(input[cursor_pos])
    /\ move_word_left(input, cursor_pos).cursor_pos < cursor_pos - 1
    /\ LeftThenRight.cursor_pos = cursor_pos

\* every char of s at the offsets a+1..b satisfies the mask, and the run is
\* maximal to the right (to the left when taken from b down to a)
RunRight(mask, a, b) ==
    /\ a <= b /\ \A k \in (a + 1)..b : mask[k]
    /\ b = Len(mask) \/ ~mask[b + 1]

RunLeft(mask, a, b) ==
    /\ a <= b /\ \A k \in (a + 1)..b : mask[k]
    /\ a = 0 \/ ~mask[a]

\* the motion to the left from c ends at r: a maximal run of whitespace,
\* then a maximal run of word chars, both leftwards
LeftOverWhitespaceThenWord(s, c, r) ==
    \E m \in r..c : RunLeft(WhitespaceMask(s), m, c) /\ RunLeft(WordMask(s), r, m)

\* C30 as stated: WordLeft moves left over whitespace then over a word, and
\* WordRight moves right over whitespace then over a word.
C30_WhitespaceThenWord ==
    /\ LeftOverWhitespaceThenWord(input, cursor_pos,
                                  move_word_left(input, cursor_pos).cursor_pos)
    /\ LET r == move_word_right(input, cursor_pos).cursor_pos
       IN  \E m \in cursor_pos..r :
               /\ RunRight(WhitespaceMask(input), cursor_pos, m)
               /\ RunRight(WordMask(input), m, r)

\* C30, amended: WordLeft moves left over a maximal run of whitespace and
\* then over a maximal run of word chars; WordRight moves right over a
\* maximal run of word chars first and then over a maximal run of
\* whitespace, so that it stops at the start of the next word.  Neither
\* changes the text.
C30_WordMotions ==
    /\ move_word_left(input, cursor_pos).input = input
    /\ move_word_right(input, cursor_pos).input = input
    /\ LeftOverWhitespaceThenWord(input, cursor_pos,
                                  move_word_left(input, cursor_pos).cursor_pos)
    /\ LET r == move_word_right(input, cursor_pos).cursor_pos
       IN  \E m \in cursor_pos..r :
               /\ RunRight(WordMask(input), cursor_pos, m)
               /\ RunRight(WhitespaceMask(input), m, r)

\* the cursor before a blank that a word follows: WordRight stops after the
\* blank, at the start of the word
C30_Witness ==
    /\ cursor_pos + 2 <= Len(input)
    /\ is_whitespace(input[cursor_pos + 1]) /\ is_word_char(input[cursor_pos + 2])
    /\ move_word_right(input, cursor_pos).cursor_pos = cursor_pos + 1

(***************************************************************************)
(* The database adapters (db/queries.rs, db/adapter.rs, db/adapters/).     *)
(* DatabaseQueries is the implementation the session calls (App.db_queries *)
(* and, through it, the MySqlAdapter of db/adapter.rs); MySqlAdapter,      *)
(* PostgresAdapter and ClickHouseAdapter are those of db/adapters/.  The   *)
(* server's answers are the environment's choice, as for the session.      *)
(***************************************************************************)
Drivers == {"DatabaseQueries", "MySqlAdapter", "PostgresAdapter", "ClickHouseAdapter"}

\* MySqlAdapter::get_table_schema: the two information_schema queries, each
\* propagating its error
MySqlAdapter_get_table_schema(st, env, table_name) ==
    [st |-> Log(st, "information_schema", table_name, env.detailed.ok),
     ret |-> env.detailed]

\* PostgresAdapter::get_table_schema: the pg_class and pg_attribute queries,
\* each propagating its error
PostgresAdapter_get_table_schema(st, env, table_name) ==
    [st |-> Log(st, "pg_catalog", table_name, env.detailed.ok),
     ret |-> env.detailed]

\* ClickHouseAdapter::get_table_schema: DESCRIBE TABLE alone
ClickHouseAdapter_get_table_schema(st, env, table_name) ==
    [st |-> Log(st, "DESCRIBE TABLE", table_name, env.simple.ok),
     ret |-> env.simple]

adapter_get_table_schema(d, st, env, table_name) ==
    CASE d = "DatabaseQueries" -> get_table_schema(st, env, table_name)
      [] d = "MySqlAdapter" -> MySqlAdapter_get_table_schema(st, env, table_name)
      [] d = "PostgresAdapter" -> PostgresAdapter_get_table_schema(st, env, table_name)
      [] d = "ClickHouseAdapter" -> ClickHouseAdapter_get_table_schema(st, env, table_name)

\* DbAdapter::system_databases; for DatabaseQueries the names its
\* get_databases_simple skips (queries.rs:63-66).  A name that is only
\* compared whole is written as one string.
system_databases(d) ==
    CASE d \in {"DatabaseQueries", "MySqlAdapter"} ->
             {"information_schema", "performance_schema", "mysql", "sys"}
      [] d = "PostgresAdapter" -> {"postgres", "template0", "template1"}
      [] d = "ClickHouseAdapter" -> {"INFORMATION_SCHEMA", "system"}

\* the names of the rows the server returned, in order
Names(rows) == [i \in DOMAIN rows |-> rows[i].name]

\* get_databases_simple: SHOW DATABASES, the four names skipped
DatabaseQueries_get_databases(answer) ==
    IF ~answer.ok THEN Err
    ELSE Ok(SelectSeq(Names(answer.v), LAMBDA db_name :
                db_name # "information_schema" /\ db_name # "performance_schema"
                /\ db_name # "mysql" /\ db_name # "sys"))

MySqlAdapter_get_databases(answer) ==
    IF ~answer.ok THEN Err
    ELSE Ok(SelectSeq(Names(answer.v), LAMBDA db_name :
                db_name \notin {"information_schema", "performance_schema", "mysql", "sys"}))

\* SELECT datname FROM pg_database WHERE datistemplate = false: the server
\* applies the WHERE clause, the adapter keeps every row
PostgresAdapter_get_databases(answer) ==
    IF ~answer.ok THEN Err
    ELSE Ok(Names(SelectSeq(answer.v, LAMBDA row : ~row.datistemplate)))

\* SHOW DATABASES, the name "system" skipped
ClickHouseAdapter_get_databases(answer) ==
    IF ~answer.ok THEN Err
    ELSE Ok(SelectSeq(Names(answer.v), LAMBDA name : name \notin {"system"}))

adapter_get_databases(d, answer) ==
    CASE d = "DatabaseQueries" -> DatabaseQueries_get_databases(answer)
      [] d = "MySqlAdapter" -> MySqlAdapter_get_databases(answer)
      [] d = "PostgresAdapter" -> PostgresAdapter_get_databases(answer)
      [] d = "ClickHouseAdapter" -> ClickHouseAdapter_get_databases(answer)

(***************************************************************************)
(* Value coercion.  A cell is known to the code only through its typed     *)
(* gets: gets is the set of types whose try_get succeeds, truth the value  *)
(* a successful get of bool returns.  What a get renders is named after    *)
(* its type, but for bool, whose rendering the source fixes.               *)
(***************************************************************************)
CellTypes ==
    {"String", "i64", "f64", "bool", "NaiveDateTime", "NaiveDate", "NaiveTime",
     "Vec<u8>", "serde_json::Value"}

Render(type, cell) ==
    IF type = "bool" THEN (IF cell.truth THEN "1" ELSE "0") ELSE type

\* if let Ok(v) = row.try_get::<T, _>(index) { return ...; } for every T of
\* order in turn, "NULL" after the last
TryInOrder(order, cell) ==
    IF \E i \in DOMAIN order : order[i] \in cell.gets
    THEN Render(order[Min({i \in DOMAIN order : order[i] \in cell.gets})], cell)
    ELSE "NULL"

DatabaseQueries_get_cell_value_as_string(cell) ==
    Ok(TryInOrder(<<"String", "i64", "f64", "bool", "NaiveDateTime", "NaiveDate",
                    "NaiveTime", "Vec<u8>", "serde_json::Value">>, cell))

\* returns the String itself; written as Ok to be read like the others
MySqlAdapter_get_cell_value_as_string(cell) ==
    Ok(TryInOrder(<<"String", "i64", "f64", "bool", "NaiveDateTime", "NaiveDate",
                    "NaiveTime", "Vec<u8>", "serde_json::Value">>, cell))

\* the cell loop of PostgresAdapter::execute_query_raw
PostgresAdapter_cell(cell) ==
    Ok(TryInOrder(<<"String", "i64", "f64", "bool", "NaiveDateTime", "NaiveDate",
                    "NaiveTime", "serde_json::Value">>, cell))

\* a ClickHouse cell is a JSON value; as a cell: the one get that fits its
\* kind (none for null, serde_json::Value for an array or an object)
JsonCells ==
    {[gets |-> g, truth |-> b] :
        g \in {{}, {"bool"}, {"i64"}, {"f64"}, {"String"}, {"serde_json::Value"}},
        b \in BOOLEAN}

\* the match of ClickHouseAdapter::execute_query_raw
ClickHouseAdapter_cell(cell) ==
    Ok(CASE cell.gets = {} -> "NULL"
         [] cell.gets = {"bool"} -> (IF cell.truth THEN "1" ELSE "0")
         [] cell.gets \in {{"i64"}, {"f64"}} -> Render(CHOOSE n \in cell.gets : TRUE, cell)
         [] cell.gets = {"String"} -> "String"
         [] OTHER -> "serde_json::Value")

adapter_cell(d, cell) ==
    CASE d = "DatabaseQueries" -> DatabaseQueries_get_cell_value_as_string(cell)
      [] d = "MySqlAdapter" -> MySqlAdapter_get_cell_value_as_string(cell)
      [] d = "PostgresAdapter" -> PostgresAdapter_cell(cell)
      [] d = "ClickHouseAdapter" -> ClickHouseAdapter_cell(cell)

(***************************************************************************)
(* Identifier quoting.                                                     *)
(***************************************************************************)
RECURSIVE replacen_1(_, _, _)
\* str::replace stopping after the first match
replacen_1(s, from, to) ==
    IF s = << >> THEN << >>
    ELSE IF Head(s) = from THEN to \o Tail(s)
    ELSE <<Head(s)>> \o replacen_1(Tail(s), from, to)

RECURSIVE replace(_, _, _)
\* str::replace of a char by a string
replace(s, from, to) ==
    IF s = << >> THEN << >>
    ELSE (IF Head(s) = from THEN to ELSE <<Head(s)>>) \o replace(Tail(s), from, to)

\* "U+0060" is the backtick
MySqlAdapter_quote_ident(ident) ==
    <<"U+0060">> \o replace(ident, "U+0060", <<"U+0060", "U+0060">>) \o <<"U+0060">>

PostgresAdapter_quote_ident(ident) ==
    <<"\"">> \o replace(ident, "\"", <<"\"", "\"">>) \o <<"\"">>

ClickHouseAdapter_quote_ident(ident) ==
    <<"U+0060">> \o replace(ident, "U+0060", <<"U+0060", "U+0060">>) \o <<"U+0060">>

quote_ident(d, ident) ==
    CASE d = "MySqlAdapter" -> MySqlAdapter_quote_ident(ident)
      [] d = "PostgresAdapter" -> PostgresAdapter_quote_ident(ident)
      [] d = "ClickHouseAdapter" -> ClickHouseAdapter_quote_ident(ident)

(***************************************************************************)
(* SpecAdapter: one adapter, called any number of times.  Every call takes *)
(* its argument, and the server's answer, from the sets below; request     *)
(* and reply keep the last call, calls the queries it sent.                *)
(***************************************************************************)
\* longest identifier quoted, in chars
MaxIdent == 3

\* pg_database, SHOW DATABASES: a fresh server of the driver's kind with one
\* database of the user's, in the order the server lists them
AdapterServer(d) ==
    CASE d \in {"DatabaseQueries", "MySqlAdapter"} ->
             << [name |-> "app", datistemplate |-> FALSE],
                [name |-> "information_schema", datistemplate |-> FALSE],
                [name |-> "mysql", datistemplate |-> FALSE],
                [name |-> "performance_schema", datistemplate |-> FALSE],
                [name |-> "sys", datistemplate |-> FALSE] >>
      [] d = "PostgresAdapter" ->
             << [name |-> "app", datistemplate |-> FALSE],
                [name |-> "postgres", datistemplate |-> FALSE],
                [name |-> "template0", datistemplate |-> TRUE],
                [name |-> "template1", datistemplate |-> TRUE] >>
      [] d = "ClickHouseAdapter" ->
             << [name |-> "INFORMATION_SCHEMA", datistemplate |-> FALSE],
                [name |-> "app", datistemplate |-> FALSE],
                [name |-> "default", datistemplate |-> FALSE],
                [name |-> "information_schema", datistemplate |-> FALSE],
                [name |-> "system", datistemplate |-> FALSE] >>

\* the server holds any of these databases, or the query fails
AdapterAnswers(d) ==
    {Err} \cup
    { Ok(SelectSeq(AdapterServer(d), LAMBDA row : row.name \in present)) :
        present \in SUBSET Range(Names(AdapterServer(d))) }

\* most typed gets that succeed on one cell
MaxGets == 2

Cells ==
    {[gets |-> g, truth |-> b] :
        g \in {s \in SUBSET CellTypes : Cardinality(s) <= MaxGets}, b \in BOOLEAN}

AdapterCells(d) == IF d = "ClickHouseAdapter" THEN JsonCells ELSE Cells

IdentChars == {"a", "b", "U+0060", "\""}

Idents == UNION {[1..n -> IdentChars] : n \in 0..MaxIdent}

InitAdapter ==
    /\ AppAtStartUp /\ BlockedInRead
    /\ driver \in Drivers
    /\ request = None
    /\ reply = None

\* the adapter returns ret, having sent the queries st.calls holds
AdapterReturn(op, arg, st, ret) ==
    /\ Assign(st)
    /\ request' = Some([op |-> op, arg |-> arg])
    /\ reply' = ret
    /\ UNCHANGED <<running, pc, keys_after_interrupt, driver>>

CallGetTableSchema ==
    /\ driver \in Drivers
    /\ \E env \in NavSchemaEnvs :
        AdapterReturn("get_table_schema", env,
                      adapter_get_table_schema(driver, Begin, env, NavTable).st,
                      adapter_get_table_schema(driver, Begin, env, NavTable).ret)

CallGetDatabases ==
    \E answer \in AdapterAnswers(driver) :
        AdapterReturn("get_databases", answer, Begin, adapter_get_databases(driver, answer))

CallCell ==
    \E cell \in AdapterCells(driver) :
        AdapterReturn("cell", cell, Begin, adapter_cell(driver, cell))

\* DatabaseQueries has no quote_ident
CallQuoteIdent ==
    /\ driver # "DatabaseQueries"
    /\ \E ident \in Idents :
        AdapterReturn("quote_ident", ident, Begin, quote_ident(driver, ident))

NextAdapter == CallGetTableSchema \/ CallGetDatabases \/ CallCell \/ CallQuoteIdent

SpecAdapter == InitAdapter /\ [][NextAdapter]_vars

\* the last call was of op
Called(op) == request # None /\ request[1].op = op

DetailedQueries == {"try_get_table_schema_detailed", "information_schema", "pg_catalog"}
SimpleQueries == {"get_table_schema_simple", "DESCRIBE TABLE"}

\* C24: for every adapter, get_table_schema first makes the detailed attempt
\* on the metadata catalog; it sends the simplified query if and only if
\* that attempt failed; it returns the detailed result when the attempt
\* succeeded, the fallback's when only the fallback succeeded, and an error
\* only when both failed.
C24_TwoTierSchema ==
    Called("get_table_schema") =>
        LET env == request[1].arg
        IN  /\ calls # << >> /\ calls[1].op \in DetailedQueries
            /\ (\E i \in DOMAIN calls : calls[i].op \in SimpleQueries) <=> ~env.detailed.ok
            /\ env.detailed.ok => reply = env.detailed
            /\ (~env.detailed.ok /\ env.simple.ok) => reply = env.simple
            /\ ~reply.ok <=> (~env.detailed.ok /\ ~env.simple.ok)

\* C25: for each driver, get_databases returns no database whose name is in
\* the driver's set of system databases.
C25_SystemDatabasesExcluded ==
    (Called("get_databases") /\ reply.ok) =>
        \A i \in DOMAIN reply.v : reply.v[i] \notin system_databases(driver)

\* C26: for every adapter and every cell the coercion returns, never an
\* error, the rendering of the first typed get that succeeds in the order
\* string, i64, f64, bool ("1" or "0"), date and time, raw bytes, JSON, and
\* "NULL" when none succeeds.
C26_ValueCoercion ==
    Called("cell") =>
        LET cell == request[1].arg
            has(type) == type \in cell.gets
        IN  /\ reply.ok
            /\ reply.v =
                 IF has("String") THEN "String"
                 ELSE IF has("i64") THEN "i64"
                 ELSE IF has("f64") THEN "f64"
                 ELSE IF has("bool") THEN (IF cell.truth THEN "1" ELSE "0")
                 ELSE IF has("NaiveDateTime") THEN "NaiveDateTime"
                 ELSE IF has("NaiveDate") THEN "NaiveDate"
                 ELSE IF has("NaiveTime") THEN "NaiveTime"
                 ELSE IF has("Vec<u8>") THEN "Vec<u8>"
                 ELSE IF has("serde_json::Value") THEN "serde_json::Value"
                 ELSE "NULL"

RECURSIVE Undouble(_, _)
\* the text between the outer quotes read back: a doubled quote is one quote
Undouble(s, q) ==
    IF s = << >> THEN << >>
    ELSE IF Len(s) >= 2 /\ s[1] = q /\ s[2] = q THEN <<q>> \o Undouble(Tail(Tail(s)), q)
    ELSE <<Head(s)>> \o Undouble(Tail(s), q)

\* the quote char of the dialect
QuoteOf(d) == IF d = "PostgresAdapter" THEN "\"" ELSE "U+0060"

\* how many chars of s are q
Count(s, q) == Cardinality({i \in DOMAIN s : s[i] = q})

\* C27: quote_ident(s) is the quote char of the dialect (backtick for MySQL
\* and ClickHouse, double quote for Postgres), then s with every quote char
\* in it doubled, then the quote char; stripping the outer quotes and
\* un-doubling gives s back, so no two identifiers are quoted alike.
C27_QuoteIdent ==
    /\ MySqlAdapter_quote_ident(<<"a", "U+0060", "b">>)
           = <<"U+0060", "a", "U+0060", "U+0060", "b", "U+0060">>
    /\ PostgresAdapter_quote_ident(<<"a", "\"", "b">>)
           = <<"\"", "a", "\"", "\"", "b", "\"">>
    /\ Called("quote_ident") =>
        LET s == request[1].arg
            q == QuoteOf(driver)
            inner == SubSeq(reply, 2, Len(reply) - 1)
        IN  /\ Len(reply) = Len(s) + Count(s, q) + 2
            /\ reply[1] = q /\ reply[Len(reply)] = q
            /\ Count(inner, q) = 2 * Count(s, q)
            /\ Undouble(inner, q) = s
            /\ \A other \in Idents : quote_ident(driver, other) = reply => other = s

\* an identifier of two quote chars in a row, quoted
C27_Witness ==
    /\ Called("quote_ident")
    /\ Len(request[1].arg) >= 2
    /\ request[1].arg[1] = QuoteOf(driver) /\ request[1].arg[2] = QuoteOf(driver)
    /\ Len(reply) = Len(request[1].arg) + Count(request[1].arg, QuoteOf(driver)) + 2

(***************************************************************************)
(* SpecLoop: run_app (ui/app.rs:140-159) step by step, from start-up, with *)
(* the Ctrl-C handler of run (ui/app.rs:87-89) clearing the flag at any    *)
(* moment.  pc is "check" at the top of the loop, "draw" before            *)
(* terminal.draw, "read" while blocked in event::read, "handle" with a key *)
(* event read and not yet handled, "done" after the loop.                  *)
(***************************************************************************)
\* most key events counted after the interrupt
MaxAfter == 2

\* the test at the top of the loop taking the flag as set, whatever it is
check_running_ignored(flag) == "draw"

\* if !running.load(Ordering::SeqCst) { break; }
check_running(flag) == IF ~flag THEN "done" ELSE "draw"

InitLoop ==
    /\ AppAtStartUp /\ NoRequest
    /\ running = TRUE
    /\ pc = "check"
    /\ keys_after_interrupt = 0

\* a step that leaves the session as it is
LoopStep(next_pc, next_result) ==
    /\ Assign([State EXCEPT !.result = next_result])
    /\ pc' = next_pc
    /\ UNCHANGED <<running, keys_after_interrupt, driver, request, reply>>

LoopCheck ==
    /\ pc = "check"
    /\ LoopStep(check_running(running), result)

\* terminal.draw(..)?
LoopDraw ==
    /\ pc = "draw"
    /\ \E ok \in BOOLEAN :
        IF ok THEN LoopStep("read", result) ELSE LoopStep("done", "Err")

\* event::read()?: a key event, another event (resize, mouse), an error
LoopRead ==
    /\ pc = "read"
    /\ \E event \in {"Key", "Other", "Err"} :
        CASE event = "Key" -> LoopStep("handle", result)
          [] event = "Other" -> LoopStep("check", result)
          [] event = "Err" -> LoopStep("done", "Err")

\* what handle_key_event may leave for the key read: q, ':', Esc, Up and Down
\* in Command mode; Esc, Backspace, the char a and the blank in SQL mode
LoopHandled ==
    IF mode = "Command"
    THEN {cmd_q(Begin), cmd_colon(Begin), cmd_esc(Begin), cmd_up(Begin), cmd_down(Begin)}
    ELSE {ReturnOk(sql_esc(Begin), FALSE), ReturnOk(sql_backspace(Begin), FALSE)}
         \cup {ReturnOk(sql_char(Begin, ch, "none"), FALSE) :
                  ch \in IF Len(input) < MaxLen THEN {"a", " "} ELSE {}}

\* if self.handle_key_event(key).await? { break; }
LoopHandle ==
    /\ pc = "handle"
    /\ keys_after_interrupt < MaxAfter
    /\ \E st \in LoopHandled :
        /\ Assign(st)
        /\ pc' = IF st.result = "Ok(false)" THEN "check" ELSE "done"
    /\ keys_after_interrupt' = IF running THEN 0 ELSE keys_after_interrupt + 1
    /\ UNCHANGED <<running, driver, request, reply>>

\* the handler of ctrlc::set_handler, on its own thread
Interrupt ==
    /\ running /\ pc # "done"
    /\ running' = FALSE
    /\ Assign(State)
    /\ UNCHANGED <<pc, keys_after_interrupt, driver, request, reply>>

NextLoop == LoopCheck \/ LoopDraw \/ LoopRead \/ LoopHandle \/ Interrupt

SpecLoop == InitLoop /\ [][NextLoop]_vars

\* C29: the flag is read once per iteration, at its top, before the draw and
\* before the blocking read: the loop draws only from the top with the flag
\* set and reads only after the draw; with the flag cleared at the top of an
\* iteration the loop ends there, nothing drawn or read; and after the
\* handler has cleared the flag at most one more key event is handled.
C29_InterruptChecked ==
    /\ [](keys_after_interrupt <= 1)
    /\ [][ /\ (pc = "check" /\ ~running) => pc' \in {"check", "done"} /\ result' = result
           /\ (pc' = "draw" /\ pc # "draw") => (pc = "check" /\ running)
           /\ (pc' = "read" /\ pc # "read") => pc = "draw"
           /\ (pc' = "handle" /\ pc # "handle") => pc = "read"
           /\ running' => running
         ]_vars

\* the loop has ended on the flag, one key event handled after the interrupt
C29_Witness ==
    /\ pc = "done" /\ ~running
    /\ keys_after_interrupt = 1
    /\ result = "Ok(false)"

(***************************************************************************)
(* Claims about the agreement of completion and application of a           *)
(* suggestion, checked under SpecEditor.                                   *)
(***************************************************************************)
\* the token of update_context_suggestions (app.rs:522-530) for buffer s and
\* cursor c: <<token, token_start, end of token>>
context_token(s, c) ==
    LET i == SkipLeft(WhitespaceMask(s), c)
        start == SkipLeft([j \in DOMAIN s |-> is_context_token_char(s[j])], i)
    IN  <<SubSeq(s, start + 1, i), start, i>>

\* the buffers in which candidate cand has taken the place of the token of
\* buffer s and cursor c, with or without the blank after it, the text
\* between the token and the cursor kept or not
TokenReplaced(s, c, cand) ==
    LET t == context_token(s, c)
        head == SubSeq(s, 1, t[2]) \o cand
    IN  { head \o sep \o SubSeq(s, from + 1, Len(s)) :
              sep \in {<< >>, <<" ">>}, from \in {t[3], c} }

\* C31: whenever the popup shows the candidates that completion computes for
\* the buffer and cursor, with token t starting at token_start, Tab replaces
\* t by the selected candidate: the text before token_start is followed by
\* the candidate and t does not remain in the buffer.
C31_TabReplacesToken ==
    LET shown == update_context_suggestions(Begin)
        s == get_current_suggestion(Begin)
        after == sql_tab(Begin)
    IN  (/\ mode = "SQL" /\ show_suggestions /\ external_suggestions # None
         /\ shown.show_suggestions
         /\ shown.external_suggestions = external_suggestions
         /\ s # None)
        => after.input \in TokenReplaced(input, cursor_pos, s[1])

\* the trigger words of the context rules of update_context_suggestions
ContextTriggers ==
    {<<"u","s","e"," ">>, <<"f","r","o","m"," ">>, <<"j","o","i","n"," ">>,
     <<"d","e","s","c"," ">>, <<"d","e","s","c","r","i","b","e"," ">>,
     <<"w","h","e","r","e"," ">>, <<"a","n","d"," ">>, <<"o","r"," ">>}

\* no context rule applies to buffer s with the cursor at c: the text before
\* the token ends with no trigger word and the token does not end with a dot
NoContextRule(s, c) ==
    LET t == context_token(s, c)
    IN  /\ ~EndsWithAny(to_lowercase(SubSeq(s, 1, t[2])), ContextTriggers)
        /\ ~(t[1] # << >> /\ t[1][Len(t[1])] = ".")

\* the keywords that start with token, whatever the case, at most KeywordLimit
KeywordsByPrefix(token) ==
    truncate(SelectSeq(DefaultKeywords,
                 LAMBDA kw : starts_with(to_lowercase(kw), to_lowercase(token))),
             KeywordLimit)

\* C32: in SQL mode, after a typed char that leaves a token matching no
\* context rule, the popup is open; with a non-empty token it offers the
\* keywords that start with the token, case-insensitively and at most 10 of
\* them, with an empty token the fixed short list of statement keywords.
C32_KeywordFallback ==
    mode = "SQL" =>
        \A ch \in EditorChars :
            LET after == sql_char(Begin, ch, "none")
                token == context_token(after.input, after.cursor_pos)[1]
            IN  NoContextRule(after.input, after.cursor_pos) =>
                    /\ after.show_suggestions
                    /\ compute_suggestions(after) =
                           IF token = << >> THEN HotKeywords
                           ELSE KeywordsByPrefix(token)

(***************************************************************************)
(* Claims about the selection in the popup, checked under SpecEditor.      *)
(***************************************************************************)
RECURSIVE NextTimes(_, _)
\* next_suggestion applied k times
NextTimes(st, k) == IF k = 0 THEN st ELSE NextTimes(next_suggestion(st), k - 1)

\* C33: with the popup showing a candidate list of length n > 0, the
\* selection is cyclic in both directions: next from n-1 selects 0, prev
\* from 0 selects n-1, next then prev and prev then next restore the index,
\* and so do n next in a row; nothing but the index changes.
C33_CyclicSelection ==
    LET n == Len(compute_suggestions(Begin))
        nxt == next_suggestion(Begin)
        prv == prev_suggestion(Begin)
    IN  (show_suggestions /\ n > 0) =>
            /\ suggestion_index = n - 1 => nxt.suggestion_index = 0
            /\ suggestion_index = 0 => prv.suggestion_index = n - 1
            /\ nxt = [Begin EXCEPT !.suggestion_index = nxt.suggestion_index]
            /\ prv = [Begin EXCEPT !.suggestion_index = prv.suggestion_index]
            /\ prev_suggestion(nxt) = Begin
            /\ next_suggestion(prv) = Begin
            /\ NextTimes(Begin, n) = Begin

\* the popup shows the two columns of table a, the last one selected by a
\* next from the first
C33_Witness ==
    /\ show_suggestions /\ external_suggestions = Some(EditorColumns)
    /\ suggestion_index = Len(EditorColumns) - 1

\* C34: in every reachable state where the popup is showing, the candidate
\* list is not empty and the selected index is below its length, so the
\* selected candidate exists and Tab applies it.
C34_SelectionExists ==
    show_suggestions =>
        LET suggestions == compute_suggestions(Begin)
            s == get_current_suggestion(Begin)
        IN  /\ suggestions # << >>
            /\ suggestion_index < Len(suggestions)
            /\ s = Some(suggestions[suggestion_index + 1])
            /\ mode = "SQL" => sql_tab(Begin) = apply_suggestion_and_hide(Begin, s[1])

\* the popup shows the eight statement keywords, the last one selected
C34_Witness ==
    /\ show_suggestions /\ external_suggestions = None
    /\ suggestion_index = Len(HotKeywords) - 1

(***************************************************************************)
(* Claim about the history cursor after Enter, checked under SpecHistory.  *)
(***************************************************************************)
\* C35: after Enter in SQL mode on a non-blank command, the history cursor
\* equals the length of the history and Up, the popup closed, recalls the
\* command just submitted, also when the command equals the last history
\* entry or was recalled from the history.
C35_UpRecallsSubmitted ==
    (mode = "SQL" /\ trim(input) # << >>) =>
        \A env \in NavStatementEnvs :
            LET after == sql_enter(Begin, env)
                up == sql_up(hide_suggestions(after))
            IN  /\ after.history_index = Len(after.history)
                /\ up.input = input

(***************************************************************************)
(* Claims about the open database, checked under SpecNav.                  *)
(***************************************************************************)
\* C36: in every reachable state the sidebar shows the database list exactly
\* when no database is open (show_databases <=> current_db = None), and q
\* ends the session only while no database is open.
C36_DatabaseListIffNoDb ==
    /\ show_databases <=> current_db = None
    /\ (mode = "Command" /\ cmd_q(Begin).result = "Ok(true)") => current_db = None

\* a reconnect to database a has failed: a is the open database, the
\* database list is hidden, the content is the error
C36_Witness ==
    /\ current_db = Some(NavDbA) /\ ~show_databases
    /\ content_type = "Error" /\ content = "switch_failed"

\* C37: whenever a database d is open (current_db = Some(d)), the pool that
\* executes the statements was built with d as its default database.
C37_ConnectionMatchesDb == current_db # None => pool_database = current_db

RECURSIVE TypeAll(_, _)
\* the chars of text typed one key event after the other
TypeAll(st, text) ==
    IF text = << >> THEN st
    ELSE TypeAll(sql_char(st, Head(text), "none"), Tail(text))

\* C38: column candidates are columns of tables of the open database only:
\* once the database has been left (current_db = None after the return to
\* the database list), neither the name of a table followed by a dot nor a
\* blank after "or" makes the popup offer columns cached before.
C38_ColumnsOfOpenDatabase ==
    (mode = "SQL" /\ input = << >> /\ current_db = None) =>
        \A text \in {NavTable \o <<".">>, <<"o", "r", " ">>} :
            LET after == TypeAll(Begin, text)
            IN  after.external_suggestions = None

\* the states a key event of SQL mode other than Enter can leave, a key the
\* mode ignores included
SqlKeyResults ==
    {Begin, sql_esc(Begin), sql_home(Begin), sql_end(Begin), sql_up(Begin),
     sql_down(Begin), sql_tab(Begin), sql_backspace(Begin)}
    \cup {sql_right(Begin, alt) : alt \in BOOLEAN}
    \cup {sql_left(Begin, alt) : alt \in BOOLEAN}
    \cup {sql_char(Begin, k[1], k[2]) : k \in EditorKeys \cup NavKeys}

\* a state with the buffer, the cursor, the history cursor, the popup and
\* the mode blanked
Navigation(st) ==
    [st EXCEPT !.input = << >>, !.cursor_pos = 0, !.history_index = 0,
               !.show_suggestions = FALSE, !.suggestion_index = 0,
               !.external_suggestions = None, !.mode = "SQL"]

\* C39: in SQL mode a key event other than Enter leaves the navigation
\* state as it was: the open database, the view type and content, the
\* sidebar lists and selections, the column cache and the connection are
\* unchanged and no adapter call is made; only the buffer, the cursor, the
\* history cursor, the popup and the mode can differ.
C39_EditKeysKeepNavigation ==
    mode = "SQL" => \A after \in SqlKeyResults : Navigation(after) = Navigation(Begin)

\* SQL mode over the schema of table t of database a, a char typed
C39_Witness ==
    /\ mode = "SQL" /\ input = <<"u">>
    /\ current_db = Some(NavDbA) /\ content_type = "TableSchema"
    /\ NavTable \in DOMAIN table_columns

RECURSIVE EscUntilNoOp(_)
\* Esc pressed in Command mode until it changes nothing
EscUntilNoOp(st) ==
    IF handle_escape(st) = st THEN st ELSE EscUntilNoOp(handle_escape(st))

\* C40: in Command mode, from every reachable view, Esc pressed finitely
\* many times reaches the root (Welcome view, database list shown), where q
\* ends the session; in no reachable state of Command mode are Esc and q
\* both without effect.
C40_EscReachesRoot ==
    (mode = "Command" /\ Running) =>
        LET last == EscUntilNoOp(Begin)
        IN  /\ is_at_root(last)
            /\ cmd_q(last).result = "Ok(true)"
            /\ ~(/\ cmd_esc(Begin) = ReturnOk(Begin, FALSE)
                 /\ cmd_q(Begin) = ReturnOk(Begin, FALSE))

====
